---- MODULE Spec2Model ----
(***************************************************************************)
(* A model of the wiki-extractor template pipeline: the brace scanner, the *)
(* parameter binder, the template expander with its frame stack, and the   *)
(* line formatter (compact).                                               *)
(*                                                                         *)
(* Strings are sequences of one-character strings, so that slicing,        *)
(* scanning and trimming are computed on characters as the Python code     *)
(* computes them.  Offsets are Python's: 0-based, half-open.               *)
(***************************************************************************)
EXTENDS Integers, Sequences, FiniteSets, TLC

VARIABLES
    mode,        \* which component this behaviour exercises
    s_text,      \* scanner: the input text
    s_n,         \* scanner: num_braces
    s_spans,     \* scanner: result of find_matching_braces
    s_bal,       \* scanner: result of balance_brackets(s_text)
    s_bal2,      \* scanner: result of balance_brackets(s_bal)
    s_pc,        \* scanner: "in" | "found" | "balanced" | "rebalanced"
    p_args,      \* binder: the argument list (parameters)
    p_out,       \* binder: the dictionary parse_template_parameters returns
    p_pc,        \* binder: "in" | "done"
    page,          \* compact: list of paragraphs (the output)
    headers,       \* compact: headers of unfilled sections, level -> title
    emptySection,  \* compact: empty sections are discarded
    skipSection,   \* compact: inside a section to discard
    keepSections,  \* compact: Extractor.keepSections
    mark_headers,  \* compact: its mark_headers argument
    c_line,        \* compact: the line the loop is at
    c_pc,          \* compact: "next" (take a line) | "line" (process it)
    c_n,           \* compact: lines taken so far
    discardLev,    \* compact (history): level of the discard-set heading
    openSections,  \* compact (history): level -> heading of the open sections
                   \* whose section is still open, 0 when there is none
    wikitext,      \* expander: the document of the top-level call
    templates,     \* expander: TemplateProcessor.templates, title -> body
    templateCache, \* expander: TemplateProcessor.templateCache
    frame,         \* expander: TemplateProcessor.frame, (title, params)
    callStack,     \* expander: activation records of the calls in progress
    ret,           \* expander: value returned by the last call
    outcome,       \* expander: "running" | "returned" | "raised"
    recursion_exceeded_1_errs,  \* expander: ceiling hits in expand_templates
    recursion_exceeded_2_errs,  \* expander: ceiling hits in expand_template
    recursion_exceeded_3_errs,  \* expander: ceiling hits in Template.subst
    template_title_errs,        \* expander: empty template titles
    discardHit,    \* expander (history): a discard-listed title was reached
    f_name,      \* parser functions: the function called
    f_args,      \* parser functions: its positional arguments
    f_out,       \* parser functions: the value it returned
    f_pc,        \* parser functions: "in" | "done"
    d_text,      \* drop_nested: the input text
    d_out,       \* drop_nested: the text it returned
    d_pc,        \* drop_nested: "in" | "done"
    a_param,     \* TemplateArg: the text between the triple braces
    a_out,       \* TemplateArg: the object built, or a raise
    a_pc,        \* TemplateArg: "in" | "done"
    b_string,    \* balance_brackets: the argument, a string or None
    b_text_utils,  \* its result by the copy of utils/text_utils.py
    b_utils,       \* its result by the copy of utils/utils.py
    b_processor,   \* its result by the copy of templates/template_processor.py
    b_pc         \* balance_brackets: "in" | "one" | "two" | "done"

scanVars == <<s_text, s_n, s_spans, s_bal, s_bal2, s_pc>>
paramVars == <<p_args, p_out, p_pc>>
compactVars == <<page, headers, emptySection, skipSection, keepSections,
                 mark_headers, c_line, c_pc, c_n, discardLev, openSections>>
expandVars == <<wikitext, templates, templateCache, frame, callStack, ret,
                outcome, recursion_exceeded_1_errs, recursion_exceeded_2_errs,
                recursion_exceeded_3_errs, template_title_errs, discardHit>>
funcVars == <<f_name, f_args, f_out, f_pc>>
dropVars == <<d_text, d_out, d_pc>>
argVars == <<a_param, a_out, a_pc>>
balVars == <<b_string, b_text_utils, b_utils, b_processor, b_pc>>
vars == <<mode, scanVars, paramVars, compactVars, expandVars, funcVars,
          dropVars, argVars, balVars>>

(***************************************************************************)
(* Bounds of the model.                                                    *)
(***************************************************************************)
MaxScanLen == 8
MaxArgs == 4
MaxLines == 4
MaxDocTokens == 4

(***************************************************************************)
(* Strings.                                                                *)
(***************************************************************************)
Strs(alphabet, n) == UNION {[1..k -> alphabet] : k \in 0..n}

\* Python text[a:b] for 0 <= a, 0 <= b (empty when a >= b)
Slice(text, a, b) ==
    LET hi == IF b > Len(text) THEN Len(text) ELSE b
    IN  IF a >= hi THEN <<>> ELSE SubSeq(text, a + 1, hi)

\* ch * n
Rep(ch, n) == [k \in 1..n |-> ch]

\* text[i:].startswith(pat)
StartsWith(text, i, pat) ==
    /\ i + Len(pat) <= Len(text)
    /\ \A k \in 1..Len(pat) : text[i + k] = pat[k]

\* pat in text
Contains(text, pat) == \E i \in 0..Len(text) : StartsWith(text, i, pat)

\* list.count(ch)
Count(seq, ch) == Cardinality({k \in 1..Len(seq) : seq[k] = ch})

Front(seq) == SubSeq(seq, 1, Len(seq) - 1)

(***************************************************************************)
(* find_matching_braces: one scan, a stack of opener offsets; every closer *)
(* that finds the stack non-empty pops it and appends a span.              *)
(***************************************************************************)
\* a variant whose closer takes the oldest opener, not the latest
FmbStepOldestOpener(text, num_braces, st, p) ==
    IF st.i # p THEN st
    ELSE IF StartsWith(text, p, Rep("{", num_braces))
         THEN [i |-> p + num_braces, stack |-> Append(st.stack, p),
               spans |-> st.spans]
    ELSE IF StartsWith(text, p, Rep("}", num_braces))
         THEN IF st.stack # <<>>
              THEN [i |-> p + num_braces, stack |-> Tail(st.stack),
                    spans |-> Append(st.spans, <<st.stack[1],
                                                 p + num_braces>>)]
              ELSE [st EXCEPT !.i = p + num_braces]
    ELSE [st EXCEPT !.i = p + 1]

\* one round of the while loop, at offset p; st = [i, stack, spans] and an
\* offset the loop has jumped over (p # st.i) has no round
FmbStep(text, num_braces, st, p) ==
    IF st.i # p THEN st
    ELSE IF StartsWith(text, p, Rep("{", num_braces))
         THEN [i |-> p + num_braces, stack |-> Append(st.stack, p),
               spans |-> st.spans]
    ELSE IF StartsWith(text, p, Rep("}", num_braces))
         THEN IF st.stack # <<>>
              THEN [i |-> p + num_braces, stack |-> Front(st.stack),
                    spans |-> Append(st.spans, <<st.stack[Len(st.stack)],
                                                 p + num_braces>>)]
              ELSE [st EXCEPT !.i = p + num_braces]
    ELSE [st EXCEPT !.i = p + 1]

\* the rounds at the offsets lo .. hi - 1 in increasing order: those of the
\* first half of the range, then those of the second half unless the loop
\* is past it already
RECURSIVE FmbScan(_, _, _, _, _)
FmbScan(text, num_braces, lo, hi, st) ==
    IF hi <= lo THEN st
    ELSE IF hi = lo + 1 THEN FmbStep(text, num_braces, st, lo)
    ELSE LET first == FmbScan(text, num_braces, lo, (lo + hi) \div 2, st)
         IN  IF first.i >= hi THEN first
             ELSE FmbScan(text, num_braces, (lo + hi) \div 2, hi, first)

find_matching_braces(text, num_braces) ==
    FmbScan(text, num_braces, 0, Len(text),
            [i |-> 0, stack |-> <<>>, spans |-> <<>>]).spans

(***************************************************************************)
(* balance_brackets: the stack holds unmatched '{' and '}'; a '}' pops a   *)
(* '{' on top of the stack and is pushed otherwise.                        *)
(***************************************************************************)
BalPushAlways(stack, c) ==
    IF c = "{" \/ c = "}" THEN Append(stack, c) ELSE stack

BalStep(stack, c) ==
    IF c = "{" THEN Append(stack, c)
    ELSE IF c = "}"
         THEN IF Len(stack) > 0 /\ stack[Len(stack)] = "{"
              THEN Front(stack)
              ELSE Append(stack, c)
    ELSE stack

\* the for loop over the characters string[lo] .. string[hi - 1] in order:
\* those of the first half of the range, then those of the second half,
\* which starts from the stack the first half has left
RECURSIVE BalStack(_, _, _, _)
BalStack(string, lo, hi, stack) ==
    IF hi <= lo THEN stack
    ELSE IF hi = lo + 1 THEN BalStep(stack, string[hi])
    ELSE LET first == BalStack(string, lo, (lo + hi) \div 2, stack)
         IN  IF first = <<>>
             THEN BalStack(string, (lo + hi) \div 2, hi, <<>>)
             ELSE BalStack(string, (lo + hi) \div 2, hi, first)

balance_brackets(string) ==
    LET stack == BalStack(string, 0, Len(string), <<>>)
    IN  Rep("{", Count(stack, "}")) \o string \o Rep("}", Count(stack, "{"))

(***************************************************************************)
(* The scanner specification: the input is any text over ScanChars of      *)
(* length at most MaxScanLen and a brace width of 2 or 3; the functions    *)
(* are applied to it one after the other.                                  *)
(***************************************************************************)
ScanChars == {"{", "}", "a"}

(***************************************************************************)
(* Values that may be None: expand_templates returns a string or None, and *)
(* an argument list may hold None where an argument's expansion was        *)
(* discarded.                                                              *)
(***************************************************************************)
Str(v) == [none |-> FALSE, val |-> v]
None == [none |-> TRUE, val |-> <<>>]

ParamIdle == p_args = <<>> /\ p_out = <<>> /\ p_pc = "idle"

FuncIdle ==
    /\ f_name = "" /\ f_args = <<>> /\ f_out = None /\ f_pc = "idle"

DropIdle == d_text = <<>> /\ d_out = <<>> /\ d_pc = "idle"

ArgIdle == a_param = <<>> /\ a_out = <<>> /\ a_pc = "idle"

BalIdle ==
    /\ b_string = None /\ b_text_utils = None /\ b_utils = None
    /\ b_processor = None /\ b_pc = "idle"

CompactIdle ==
    /\ page = <<>> /\ headers = <<>> /\ emptySection = FALSE
    /\ skipSection = FALSE /\ keepSections = TRUE /\ mark_headers = FALSE
    /\ c_line = <<>> /\ c_pc = "idle" /\ c_n = 0 /\ discardLev = 0
    /\ openSections = <<>>

ExpandIdle ==
    /\ wikitext = <<>> /\ templates = <<>> /\ templateCache = <<>>
    /\ frame = <<>> /\ callStack = <<>> /\ ret = None /\ outcome = "idle"
    /\ recursion_exceeded_1_errs = 0 /\ recursion_exceeded_2_errs = 0
    /\ recursion_exceeded_3_errs = 0 /\ template_title_errs = 0
    /\ discardHit = FALSE

ScanInit ==
    /\ mode = "scan"
    /\ FuncIdle
    /\ DropIdle
    /\ ArgIdle
    /\ BalIdle
    /\ ParamIdle
    /\ CompactIdle
    /\ ExpandIdle
    /\ s_text \in Strs(ScanChars, MaxScanLen)
    /\ s_n \in {2, 3}
    /\ s_spans = <<>>
    /\ s_bal = <<>>
    /\ s_bal2 = <<>>
    /\ s_pc = "in"

ScanFind ==
    /\ mode = "scan" /\ s_pc = "in"
    /\ s_spans' = find_matching_braces(s_text, s_n)
    /\ s_pc' = "found"
    /\ UNCHANGED <<mode, funcVars, dropVars, argVars, balVars, expandVars, s_text, s_n, s_bal, s_bal2, paramVars, compactVars>>

ScanBalance ==
    /\ mode = "scan" /\ s_pc = "found"
    /\ s_bal' = balance_brackets(s_text)
    /\ s_pc' = "balanced"
    /\ UNCHANGED <<mode, funcVars, dropVars, argVars, balVars, expandVars, s_text, s_n, s_spans, s_bal2, paramVars, compactVars>>

ScanRebalance ==
    /\ mode = "scan" /\ s_pc = "balanced"
    /\ s_bal2' = balance_brackets(s_bal)
    /\ s_pc' = "rebalanced"
    /\ UNCHANGED <<mode, funcVars, dropVars, argVars, balVars, expandVars, s_text, s_n, s_spans, s_bal, paramVars, compactVars>>

ScanNext == ScanFind \/ ScanBalance \/ ScanRebalance

SpecScan == ScanInit /\ [][ScanNext]_vars

(***************************************************************************)
(* Scanner claims.                                                         *)
(***************************************************************************)
SpanInside(a, b) == b[1] <= a[1] /\ a[2] <= b[2]

\* C4: find_matching_braces(text, n) returns only top-level spans (no
\* returned span lies inside another returned span) and returns them in
\* left-to-right order.
C4_TopLevelInOrder ==
    s_pc # "in" =>
        /\ \A i, j \in 1..Len(s_spans) :
              i # j => ~SpanInside(s_spans[i], s_spans[j])
        /\ \A i, j \in 1..Len(s_spans) :
              i < j => s_spans[i][1] < s_spans[j][1]

\* A depth-counter reading of a string: <<closers with no open '{' before
\* them, '{' left open at the end>>.
RECURSIVE Unmatched(_, _, _)
Unmatched(string, depth, closers) ==
    IF string = <<>> THEN <<closers, depth>>
    ELSE IF string[1] = "{" THEN Unmatched(Tail(string), depth + 1, closers)
    ELSE IF string[1] = "}"
         THEN IF depth > 0
              THEN Unmatched(Tail(string), depth - 1, closers)
              ELSE Unmatched(Tail(string), depth, closers + 1)
    ELSE Unmatched(Tail(string), depth, closers)

AllMatched(string) == Unmatched(string, 0, 0) = <<0, 0>>

\* C9: balance_brackets(s) is s with one '{' prepended per '}' that has no
\* earlier unmatched '{' and one '}' appended per '{' never closed, and
\* every brace of the result is matched.
C9_BalancePads ==
    s_pc \in {"balanced", "rebalanced"} =>
        LET u == Unmatched(s_text, 0, 0)
        IN  /\ s_bal = Rep("{", u[1]) \o s_text \o Rep("}", u[2])
            /\ AllMatched(s_bal)

C9_Witness ==
    /\ s_pc = "balanced"
    /\ s_text = <<"a", "}", "}", "a", "{">>
    /\ s_bal = <<"{", "{", "a", "}", "}", "a", "{", "}">>

\* C10: balance_brackets is idempotent: applying it to its own result
\* returns that result.
C10_Idempotent == s_pc = "rebalanced" => s_bal2 = s_bal

C10_Witness ==
    /\ s_pc = "rebalanced"
    /\ s_bal # s_text
    /\ Len(s_bal) = Len(s_text) + 3


\* str.strip(): whitespace is the blank and the newline
IsSpace(c) == c = " " \/ c = "\n"

RECURSIVE LStrip(_)
LStrip(t) == IF t # <<>> /\ IsSpace(t[1]) THEN LStrip(Tail(t)) ELSE t

RECURSIVE RStrip(_)
RStrip(t) == IF t # <<>> /\ IsSpace(t[Len(t)]) THEN RStrip(Front(t)) ELSE t

Strip(t) == RStrip(LStrip(t))

\* offset of the first occurrence of ch in t at or after i, or -1 (str.find)
FindFrom(t, ch, i) ==
    LET found == {k \in i..(Len(t) - 1) : t[k + 1] = ch}
    IN  IF found = {} THEN -1
        ELSE CHOOSE k \in found : \A other \in found : k <= other

Find(t, ch) == FindFrom(t, ch, 0)

\* str(n) for n >= 0
DigitChar(d) ==
    CASE d = 0 -> "0" [] d = 1 -> "1" [] d = 2 -> "2" [] d = 3 -> "3"
      [] d = 4 -> "4" [] d = 5 -> "5" [] d = 6 -> "6" [] d = 7 -> "7"
      [] d = 8 -> "8" [] d = 9 -> "9"

RECURSIVE IntStr(_)
IntStr(n) ==
    IF n < 10 THEN <<DigitChar(n)>>
    ELSE IntStr(n \div 10) \o <<DigitChar(n % 10)>>

(***************************************************************************)
(* parse_template_parameters.  Its regular expression (blanks, a lazy run  *)
(* of characters other than the equals sign and the apostrophe, blanks, an *)
(* equals sign, the rest; matched at the start with re.DOTALL)             *)
(* matches exactly when param holds an equals sign with no apostrophe      *)
(* before the first one; group 1 is the text before that sign without its  *)
(* surrounding blanks, group 2 the text after it.  A None argument raises  *)
(* TypeError and is skipped.                                               *)
(***************************************************************************)
EmptyDict == [k \in {} |-> <<>>]

DictSet(d, key, value) ==
    [k \in DOMAIN d \cup {key} |-> IF k = key THEN value ELSE d[k]]

IsNamed(param) ==
    LET eq == Find(param, "=")
    IN  eq >= 0 /\ Find(Slice(param, 0, eq), "'") = -1

ParamName(param) == Strip(Slice(param, 0, Find(param, "=")))

\* a variant that keeps the blanks when a "[[" has no "]]" behind it
TrimValueUnlessOpen(value) ==
    IF \E k \in 0..(Len(value) - 2) :
           /\ Slice(value, k, k + 2) = <<"[", "[">>
           /\ ~Contains(Slice(value, k + 2, Len(value)), <<"]", "]">>)
    THEN value ELSE Strip(value)

\* trimmed unless the value holds "]]"
TrimValue(value) ==
    IF ~Contains(value, <<"]", "]">>) THEN Strip(value) ELSE value

ParamValue(param) ==
    TrimValue(Slice(param, Find(param, "=") + 1, Len(param)))

\* acc = [params |-> template_params, counter |-> unnamed_parameter_counter]
ParamStepFirstWins(acc, param) ==
    IF param.none THEN acc
    ELSE IF IsNamed(param.val)
         THEN IF ParamName(param.val) \in DOMAIN acc.params THEN acc
              ELSE [acc EXCEPT !.params =
                       DictSet(@, ParamName(param.val), ParamValue(param.val))]
    ELSE IF IntStr(acc.counter + 1) \in DOMAIN acc.params
         THEN [acc EXCEPT !.counter = @ + 1]
         ELSE [params |-> DictSet(acc.params, IntStr(acc.counter + 1),
                                  TrimValue(param.val)),
               counter |-> acc.counter + 1]

ParamStepCountAll(acc, param) ==
    IF param.none THEN acc
    ELSE IF IsNamed(param.val)
         THEN [params |-> DictSet(acc.params, ParamName(param.val),
                                  ParamValue(param.val)),
               counter |-> acc.counter + 1]
    ELSE [params |-> DictSet(acc.params, IntStr(acc.counter + 1),
                             TrimValue(param.val)),
          counter |-> acc.counter + 1]

ParamStep(acc, param) ==
    IF param.none THEN acc
    ELSE IF IsNamed(param.val)
         THEN [acc EXCEPT !.params =
                  DictSet(@, ParamName(param.val), ParamValue(param.val))]
    ELSE [params |-> DictSet(acc.params, IntStr(acc.counter + 1),
                             TrimValue(param.val)),
          counter |-> acc.counter + 1]

RECURSIVE ParamFold(_, _)
ParamFold(parameters, acc) ==
    IF parameters = <<>> THEN acc
    ELSE ParamFold(Tail(parameters), ParamStep(acc, parameters[1]))

parse_template_parameters(parameters) ==
    IF parameters = <<>> THEN EmptyDict
    ELSE ParamFold(parameters, [params |-> EmptyDict, counter |-> 0]).params

(***************************************************************************)
(* The binder specification: the argument list is any list of at most      *)
(* MaxArgs arguments drawn from ParamInputs.                               *)
(***************************************************************************)
ParamInputs ==
    { Str(<<"a">>), Str(<<"b">>), Str(<<"c">>), Str(<<>>),
      Str(<<" ", "a", " ">>),
      Str(<<"2", "=", "B">>), Str(<<"2", "=">>), Str(<<"1", "=", "b">>),
      Str(<<"x", " ", "=", " ", "a">>), Str(<<"'", "=", "a">>),
      Str(<<" ", "[", "[", "a">>),
      Str(<<"x", "=", " ", "[", "[", "a", "]", "]", " ">>),
      None }

ScanIdle ==
    /\ s_text = <<>> /\ s_n = 2 /\ s_spans = <<>>
    /\ s_bal = <<>> /\ s_bal2 = <<>> /\ s_pc = "idle"

ParamInit ==
    /\ mode = "params"
    /\ FuncIdle
    /\ DropIdle
    /\ ArgIdle
    /\ BalIdle
    /\ ScanIdle
    /\ CompactIdle
    /\ ExpandIdle
    /\ p_args \in UNION {[1..k -> ParamInputs] : k \in 0..MaxArgs}
    /\ p_out = EmptyDict
    /\ p_pc = "in"

ParamParse ==
    /\ mode = "params" /\ p_pc = "in"
    /\ p_out' = parse_template_parameters(p_args)
    /\ p_pc' = "done"
    /\ UNCHANGED <<mode, funcVars, dropVars, argVars, balVars, expandVars, scanVars, p_args, compactVars>>

ParamNext == ParamParse

SpecParams == ParamInit /\ [][ParamNext]_vars

(***************************************************************************)
(* Binder claims.                                                          *)
(***************************************************************************)
\* the arguments that bind something: strings (None is skipped)
Binding(i) == ~p_args[i].none
Positional(i) == Binding(i) /\ ~IsNamed(p_args[i].val)
Named(i) == Binding(i) /\ IsNamed(p_args[i].val)

\* number of positional arguments among the first i
PosRank(i) == Cardinality({j \in 1..i : Positional(j)})

KeyOf(i) ==
    IF Named(i) THEN ParamName(p_args[i].val) ELSE IntStr(PosRank(i))

ValueOf(i) ==
    IF Named(i) THEN ParamValue(p_args[i].val) ELSE TrimValue(p_args[i].val)

LastBinder(k) ==
    CHOOSE i \in 1..Len(p_args) :
        /\ Binding(i) /\ KeyOf(i) = k
        /\ \A j \in (i + 1)..Len(p_args) : ~(Binding(j) /\ KeyOf(j) = k)

C6_CounterAdvancesForAll ==
    p_pc = "done" =>
        \A i \in 1..Len(p_args) :
            Positional(i) =>
                /\ IntStr(i) \in DOMAIN p_out
                /\ (\A j \in (i + 1)..Len(p_args) :
                        ~(Named(j) /\ ParamName(p_args[j].val) = IntStr(i)))
                   => p_out[IntStr(i)] = TrimValue(p_args[i].val)

\* C6 amended: the counter advances for positional arguments only, so a
\* positional argument is bound under str(r), r its 1-based rank among the
\* positional arguments (unless a later name=value argument assigns that
\* key).
C6_CounterCountsPositional ==
    p_pc = "done" =>
        \A i \in 1..Len(p_args) :
            Positional(i) =>
                /\ IntStr(PosRank(i)) \in DOMAIN p_out
                /\ (\A j \in (i + 1)..Len(p_args) :
                        ~(Named(j) /\ ParamName(p_args[j].val) = IntStr(PosRank(i))))
                   => p_out[IntStr(PosRank(i))] = TrimValue(p_args[i].val)

C6_Witness ==
    /\ p_pc = "done"
    /\ p_args = <<Str(<<"x", " ", "=", " ", "a">>), Str(<<"b">>)>>
    /\ p_out = [k \in {<<"x">>, <<"1">>} |->
                  IF k = <<"x">> THEN <<"a">> ELSE <<"b">>]

\* the text an argument gives as its value, before any trimming
RawValue(i) ==
    IF Named(i)
    THEN Slice(p_args[i].val, Find(p_args[i].val, "=") + 1,
               Len(p_args[i].val))
    ELSE p_args[i].val

\* the value opens an internal link that it does not close
OpensLink(value) ==
    \E k \in 0..(Len(value) - 2) :
        /\ value[k + 1] = "[" /\ value[k + 2] = "["
        /\ \A j \in (k + 2)..(Len(value) - 2) :
               ~(value[j + 1] = "]" /\ value[j + 2] = "]")

\* the value holds the closing token of an internal link
ClosesLink(value) ==
    \E k \in 0..(Len(value) - 2) : value[k + 1] = "]" /\ value[k + 2] = "]"

\* C22 as stated: every bound value, named or positional, is its argument's
\* value without leading and trailing whitespace, unless that value holds
\* an opening token of an internal link that is not closed, and then it is
\* bound as written.
C22_TrimmedUnlessLinkOpen ==
    p_pc = "done" =>
        \A k \in DOMAIN p_out :
            p_out[k] = IF OpensLink(RawValue(LastBinder(k)))
                       THEN RawValue(LastBinder(k))
                       ELSE Strip(RawValue(LastBinder(k)))

\* C22 (amended): every bound value, named or positional, is its argument's
\* value without leading and trailing whitespace, unless that value holds
\* the closing token of an internal link, and then it is bound as written.
C22_TrimmedUnlessLinkClosed ==
    p_pc = "done" =>
        \A k \in DOMAIN p_out :
            p_out[k] = IF ClosesLink(RawValue(LastBinder(k)))
                       THEN RawValue(LastBinder(k))
                       ELSE Strip(RawValue(LastBinder(k)))

\* a positional value that opens a link without closing it is bound
\* trimmed, a named value with a closed link is bound with its blanks
C22_Witness ==
    /\ p_pc = "done"
    /\ p_args = <<Str(<<" ", "[", "[", "a">>),
                  Str(<<"x", "=", " ", "[", "[", "a", "]", "]", " ">>)>>
    /\ p_out[<<"1">>] = <<"[", "[", "a">>
    /\ p_out[<<"x">>] = <<" ", "[", "[", "a", "]", "]", " ">>

(***************************************************************************)
(* compact: one pass over the lines of the cleaned text.                   *)
(* Extractor.HtmlFormatting is False (extractor.py:28, main.py:389), so    *)
(* listLevel stays empty and the HTML list branches are not taken.         *)
(***************************************************************************)
\* the configured Extractor.discardSections (lower-case titles)
discardSections == {<<"r">>}

\* str.lower() on ASCII
LowerChar(c) ==
    CASE c = "A" -> "a" []
        c = "B" -> "b" []
        c = "C" -> "c" []
        c = "D" -> "d" []
        c = "E" -> "e" []
        c = "F" -> "f" []
        c = "G" -> "g" []
        c = "H" -> "h" []
        c = "I" -> "i" []
        c = "J" -> "j" []
        c = "K" -> "k" []
        c = "L" -> "l" []
        c = "M" -> "m" []
        c = "N" -> "n" []
        c = "O" -> "o" []
        c = "P" -> "p" []
        c = "Q" -> "q" []
        c = "R" -> "r" []
        c = "S" -> "s" []
        c = "T" -> "t" []
        c = "U" -> "u" []
        c = "V" -> "v" []
        c = "W" -> "w" []
        c = "X" -> "x" []
        c = "Y" -> "y" []
        c = "Z" -> "z" []
        OTHER -> c

Lower(t) == [k \in 1..Len(t) |-> LowerChar(t[k])]

\* number of leading characters of t that are in chars
RECURSIVE LeadRun(_, _)
LeadRun(t, chars) ==
    IF t # <<>> /\ t[1] \in chars THEN 1 + LeadRun(Tail(t), chars) ELSE 0

\* SECTION_RE = (==+)\s*(.*?)\s*\1 matched at the start of the line:
\* SecTail(line, p, k): from offset p on, blanks and then k equals signs
SecTail(line, p, k) ==
    \E w \in 0..(Len(line) - p) :
        /\ \A i \in 1..w : IsSpace(line[p + i])
        /\ StartsWith(line, p + w, Rep("=", k))

\* offset where group 2 starts when group 1 is k equals signs
SecStart(line, k) == k + LeadRun(Slice(line, k, Len(line)), {" ", "\n"})

SecOk(line, k) ==
    \E p \in SecStart(line, k)..Len(line) : SecTail(line, p, k)

\* group 1 is the longest run of leading equals signs that lets the rest match
SectionMatches(line) ==
    \E k \in 2..LeadRun(line, {"="}) : SecOk(line, k)

SectionLevel(line) ==
    CHOOSE k \in 2..LeadRun(line, {"="}) :
        /\ SecOk(line, k)
        /\ \A k2 \in (k + 1)..LeadRun(line, {"="}) : ~SecOk(line, k2)

\* group 2: the shortest title that lets the rest match
SectionTitle(line) ==
    LET k == SectionLevel(line)
        q == SecStart(line, k)
        p == CHOOSE p \in q..Len(line) :
                 /\ SecTail(line, p, k)
                 /\ \A p2 \in q..(p - 1) : ~SecTail(line, p2, k)
    IN  Slice(line, q, p)

\* append '.' unless the title is empty or ends in '!' or '?'
WithStop(title) ==
    IF title # <<>> /\ title[Len(title)] \notin {"!", "?"}
    THEN title \o <<".">> ELSE title

\* headers = { k:v for k,v in headers.items() if k <= lev }
HeadersUpTo(h, lev) == [k \in {x \in DOMAIN h : x <= lev} |-> h[k]]

\* the values of sorted(headers.items()), descending instead of ascending
RECURSIVE SortedDescending(_)
SortedDescending(h) ==
    IF DOMAIN h = {} THEN <<>>
    ELSE LET hi == CHOOSE k \in DOMAIN h : \A x \in DOMAIN h : x <= k
         IN  <<h[hi]>> \o SortedDescending([k \in DOMAIN h \ {hi} |-> h[k]])

\* the values of sorted(headers.items())
RECURSIVE SortedTitles(_)
SortedTitles(h) ==
    IF DOMAIN h = {} THEN <<>>
    ELSE LET lo == CHOOSE k \in DOMAIN h : \A x \in DOMAIN h : k <= x
         IN  <<h[lo]>> \o SortedTitles([k \in DOMAIN h \ {lo} |-> h[k]])

\* the lines appended when pending headers are written out
Flush(h, keep) ==
    IF DOMAIN h = {} THEN <<>>
    ELSE IF keep THEN <<<<"\n">>>> \o SortedTitles(h) ELSE <<>>

\* line.lstrip(':')
RECURSIVE LStripColon(_)
LStripColon(t) == IF t # <<>> /\ t[1] = ":" THEN LStripColon(Tail(t)) ELSE t

\* line.strip('.-') == ''
OnlyDotsDashes(t) == \A k \in 1..Len(t) : t[k] \in {".", "-"}

\* re.sub('[;#\*]', ' ', line), then a "- " put after the leading blanks
\* (before the last blank when the line is nothing but blanks)
ListItem(line) ==
    LET t == [k \in 1..Len(line) |->
                 IF line[k] \in {";", "#", "*"} THEN " " ELSE line[k]]
        n == LeadRun(t, {" "})
    IN  IF n < Len(t)
        THEN Slice(t, 0, n) \o <<"-", " ">> \o Slice(t, n, Len(t))
        ELSE Slice(t, 0, n - 1) \o <<"-", " ", " ">>

\* the page title of a '++title++' line: line[2:-2]
PageTitle(line) == Slice(line, 2, Len(line) - 2)

\* the line after the indent branch (line 170-174): a ++ line keeps its
\* text, a line starting with ':' loses its leading colons
AfterIndent(line) ==
    IF StartsWith(line, 0, <<"+", "+">>) THEN line
    ELSE IF line[1] = ":" THEN LStripColon(line) ELSE line

IsListLine(line) == line # <<>> /\ line[1] \in {"*", "#", ";"}

\* a variant whose list branch leaves the empty-section flag as it is
CompactStepListKeepsFlag(st, line, keep, mark) ==
    IF line = <<>> THEN st
    ELSE IF SectionMatches(line)
    THEN LET title == SectionTitle(line)
             lev == SectionLevel(line)
             shown == IF mark THEN Rep("#", lev) \o <<" ">> \o WithStop(title)
                      ELSE WithStop(title)
         IN  IF Lower(title) \in discardSections
             THEN [st EXCEPT !.skipSection = TRUE, !.emptySection = TRUE]
             ELSE [st EXCEPT !.skipSection = FALSE,
                             !.headers = HeadersUpTo(
                                 DictSet(st.headers, lev, shown), lev),
                             !.emptySection = TRUE]
    ELSE IF st.skipSection THEN st
    ELSE IF StartsWith(line, 0, <<"+", "+">>) /\ PageTitle(line) # <<>>
    THEN [st EXCEPT !.page = Append(@, WithStop(PageTitle(line)))]
    ELSE LET l == AfterIndent(line)
         IN  IF l = <<>> THEN st
             ELSE IF IsListLine(l)
             THEN [st EXCEPT !.page = @ \o Flush(st.headers, keep)
                                        \o <<ListItem(l)>>,
                             !.headers = EmptyDict]
             ELSE IF l[1] \in {"{", "|"} \/ l[Len(l)] = "}" THEN st
             ELSE IF (l[1] = "(" /\ l[Len(l)] = ")") \/ OnlyDotsDashes(l)
             THEN st
             ELSE IF DOMAIN st.headers # {}
             THEN [st EXCEPT !.page = @ \o Flush(st.headers, keep) \o <<l>>,
                             !.headers = EmptyDict,
                             !.emptySection = FALSE]
             ELSE IF ~st.emptySection
             THEN [st EXCEPT !.page = Append(@, l)]
             ELSE st

\* the state after the loop body has run on line; st is the record of
\* page, headers, emptySection, skipSection
CompactStep(st, line, keep, mark) ==
    IF line = <<>> THEN st
    ELSE IF SectionMatches(line)
    THEN LET title == SectionTitle(line)
             lev == SectionLevel(line)
             shown == IF mark THEN Rep("#", lev) \o <<" ">> \o WithStop(title)
                      ELSE WithStop(title)
         IN  IF Lower(title) \in discardSections
             THEN [st EXCEPT !.skipSection = TRUE, !.emptySection = TRUE]
             ELSE [st EXCEPT !.skipSection = FALSE,
                             !.headers = HeadersUpTo(
                                 DictSet(st.headers, lev, shown), lev),
                             !.emptySection = TRUE]
    ELSE IF st.skipSection THEN st
    ELSE IF StartsWith(line, 0, <<"+", "+">>) /\ PageTitle(line) # <<>>
    THEN [st EXCEPT !.page = Append(@, WithStop(PageTitle(line)))]
    ELSE LET l == AfterIndent(line)
         IN  IF l = <<>> THEN st
             ELSE IF IsListLine(l)
             THEN [st EXCEPT !.page = @ \o Flush(st.headers, keep)
                                        \o <<ListItem(l)>>,
                             !.headers = EmptyDict,
                             !.emptySection = FALSE]
             ELSE IF l[1] \in {"{", "|"} \/ l[Len(l)] = "}" THEN st
             ELSE IF (l[1] = "(" /\ l[Len(l)] = ")") \/ OnlyDotsDashes(l)
             THEN st
             ELSE IF DOMAIN st.headers # {}
             THEN [st EXCEPT !.page = @ \o Flush(st.headers, keep) \o <<l>>,
                             !.headers = EmptyDict,
                             !.emptySection = FALSE]
             ELSE IF ~st.emptySection
             THEN [st EXCEPT !.page = Append(@, l)]
             ELSE st

(***************************************************************************)
(* The formatter specification: the text is any sequence of at most        *)
(* MaxLines lines drawn from CompactLines; CompactTake is the for loop     *)
(* taking the next line, CompactLine the loop body.                        *)
(***************************************************************************)
CompactLines ==
    { <<>>,
      <<"=", "=", "a", "=", "=">>,
      <<"=", "=", "=", " ", "b", "?", " ", "=", "=", "=">>,
      <<"=", "=", "R", "=", "=">>,
      <<"=", "=", "=", "r", "=", "=", "=">>,
      <<"*", "x">>,
      <<":", "#", "y">>,
      <<":", ":">>,
      <<"z">>,
      <<"+", "+", "t", "+", "+">>,
      <<"(", "z", ")">> }

CompactInit ==
    /\ mode = "compact"
    /\ FuncIdle
    /\ DropIdle
    /\ ArgIdle
    /\ BalIdle
    /\ ScanIdle
    /\ ParamIdle
    /\ ExpandIdle
    /\ page = <<>>
    /\ headers = EmptyDict
    /\ emptySection = FALSE
    /\ skipSection = FALSE
    /\ keepSections \in BOOLEAN
    /\ mark_headers \in BOOLEAN
    /\ c_line = <<>>
    /\ c_pc = "next"
    /\ c_n = 0
    /\ discardLev = 0
    /\ openSections = EmptyDict

CompactTake ==
    /\ mode = "compact" /\ c_pc = "next"
    /\ c_n < MaxLines
    /\ \E line \in CompactLines : c_line' = line
    /\ c_n' = c_n + 1
    /\ c_pc' = "line"
    /\ UNCHANGED <<mode, funcVars, dropVars, argVars, balVars, expandVars, scanVars, paramVars, page, headers, emptySection,
                   skipSection, keepSections, mark_headers, discardLev,
                   openSections>>

\* the history variable: a discard-set heading at level L opens a section
\* that lasts until the next heading of level L or shallower
DiscardLevAfter(lev0, line) ==
    IF line # <<>> /\ SectionMatches(line)
    THEN LET lev == SectionLevel(line)
         IN  IF Lower(SectionTitle(line)) \in discardSections
             THEN IF lev0 > 0 /\ lev > lev0 THEN lev0 ELSE lev
             ELSE IF lev0 > 0 /\ lev <= lev0 THEN 0 ELSE lev0
    ELSE lev0

\* the history variable: a heading at level L, discard-set or not, closes
\* the sections of level L and deeper and opens its own
OpenSectionsAfter(open, line, mark) ==
    IF line # <<>> /\ SectionMatches(line)
    THEN LET lev == SectionLevel(line)
             title == SectionTitle(line)
             shown == IF mark THEN Rep("#", lev) \o <<" ">> \o WithStop(title)
                      ELSE WithStop(title)
         IN  HeadersUpTo(
                 DictSet(open, lev,
                         [title |-> shown,
                          discarded |-> Lower(title) \in discardSections]),
                 lev)
    ELSE open

CompactLine ==
    /\ mode = "compact" /\ c_pc = "line"
    /\ LET st == CompactStep([page |-> page, headers |-> headers,
                              emptySection |-> emptySection,
                              skipSection |-> skipSection],
                             c_line, keepSections, mark_headers)
       IN  /\ page' = st.page
           /\ headers' = st.headers
           /\ emptySection' = st.emptySection
           /\ skipSection' = st.skipSection
    /\ discardLev' = DiscardLevAfter(discardLev, c_line)
    /\ openSections' = OpenSectionsAfter(openSections, c_line, mark_headers)
    /\ c_pc' = "next"
    /\ UNCHANGED <<mode, funcVars, dropVars, argVars, balVars, expandVars, scanVars, paramVars, keepSections, mark_headers,
                   c_line, c_n>>

CompactNext == CompactTake \/ CompactLine

SpecCompact == CompactInit /\ [][CompactNext]_vars

(***************************************************************************)
(* Formatter claims.                                                       *)
(***************************************************************************)
IsHeading(line) == line # <<>> /\ SectionMatches(line)

\* C7: once a heading with a discard-set title has been processed at level
\* L, every following line is dropped (appends nothing to the output) until
\* the next heading of level L or shallower; deeper headings and their
\* content are dropped with the section.
C7_DiscardUntilShallower ==
    [][(/\ c_pc = "line"
        /\ discardLev > 0
        /\ ~(IsHeading(c_line) /\ SectionLevel(c_line) <= discardLev))
       => page' = page]_vars

\* the i-th smallest level of the pending headers
NthLevel(h, i) ==
    CHOOSE k \in DOMAIN h : Cardinality({x \in DOMAIN h : x < k}) = i - 1

\* C8: in plain-text mode with keepSections on, when a list item is
\* processed (outside a discarded section) while headers are pending, all
\* pending headers are appended in ascending level order before the list
\* item, and no header is pending afterwards.
C8_ListFlushesHeaders ==
    [][(/\ c_pc = "line"
        /\ keepSections
        /\ c_line # <<>> /\ ~SectionMatches(c_line) /\ ~skipSection
        /\ ~(StartsWith(c_line, 0, <<"+", "+">>))
        /\ IsListLine(LStripColon(c_line))
        /\ DOMAIN headers # {})
       => LET n == Cardinality(DOMAIN headers)
              base == Len(page)
          IN  /\ Len(page') = base + n + 2
              /\ \A i \in 1..n : page'[base + 1 + i] = headers[NthLevel(headers, i)]
              /\ page'[base + 1] = <<"\n">>
              /\ page'[base + n + 2] = ListItem(LStripColon(c_line))
              /\ SubSeq(page', 1, base) = page
              /\ headers' = EmptyDict]_vars

C8_Witness ==
    /\ c_pc = "next"
    /\ keepSections /\ ~mark_headers
    /\ c_line = <<"*", "x">>
    /\ headers = EmptyDict
    /\ page = << <<"\n">>, <<"a", ".">>, <<"b", "?">>, <<" ", "-", " ", "x">> >>

(***************************************************************************)
(* Characters: str.lower(), str.upper() and the \w class on ASCII.         *)
(***************************************************************************)
UpperChar(c) ==
    CASE c = "a" -> "A" []
        c = "b" -> "B" []
        c = "c" -> "C" []
        c = "d" -> "D" []
        c = "e" -> "E" []
        c = "f" -> "F" []
        c = "g" -> "G" []
        c = "h" -> "H" []
        c = "i" -> "I" []
        c = "j" -> "J" []
        c = "k" -> "K" []
        c = "l" -> "L" []
        c = "m" -> "M" []
        c = "n" -> "N" []
        c = "o" -> "O" []
        c = "p" -> "P" []
        c = "q" -> "Q" []
        c = "r" -> "R" []
        c = "s" -> "S" []
        c = "t" -> "T" []
        c = "u" -> "U" []
        c = "v" -> "V" []
        c = "w" -> "W" []
        c = "x" -> "X" []
        c = "y" -> "Y" []
        c = "z" -> "Z" []
        OTHER -> c

Upper(t) == [k \in 1..Len(t) |-> UpperChar(t[k])]

\* ucfirst / lcfirst (text_utils.py)
ucfirst(t) == IF t = <<>> THEN <<>> ELSE <<UpperChar(t[1])>> \o Tail(t)
lcfirst(t) == IF t = <<>> THEN <<>> ELSE <<LowerChar(t[1])>> \o Tail(t)

WordChars == {"a", "b", "c", "d", "e", "f", "g", "h", "i", "j", "k", "l", "m", "n", "o", "p", "q", "r", "s", "t", "u", "v", "w", "x", "y", "z", "A", "B", "C", "D", "E", "F", "G", "H", "I", "J", "K", "L", "M", "N", "O", "P", "Q", "R", "S", "T", "U", "V", "W", "X", "Y", "Z", "0", "1", "2", "3", "4", "5", "6", "7", "8", "9", "_"}

\* re.match(pat, title, re.IGNORECASE) for a literal pattern given in lower case
MatchCI(pat, title) == StartsWith(Lower(title), 0, pat)

(***************************************************************************)
(* split_parts: split on '|' outside {{ }} and [[ ]]; a trailing empty     *)
(* part is not appended.                                                   *)
(***************************************************************************)
\* one round of the while loop, at offset p; st = [i, depth, current,
\* parts] and an offset the loop has jumped over (p # st.i) has no round
SplitStep(text, st, p) ==
    LET char == text[p + 1]
        twice == p + 1 < Len(text) /\ text[p + 2] = char
    IN  IF st.i # p THEN st
        ELSE IF char \in {"{", "["} /\ twice
        THEN [st EXCEPT !.i = p + 2, !.depth = @ + 1,
                        !.current = @ \o <<char, char>>]
        ELSE IF char \in {"}", "]"} /\ twice
        THEN [st EXCEPT !.i = p + 2, !.depth = @ - 1,
                        !.current = @ \o <<char, char>>]
        ELSE IF char = "|" /\ st.depth = 0
        THEN [st EXCEPT !.i = p + 1, !.current = <<>>,
                        !.parts = Append(@, st.current)]
        ELSE [st EXCEPT !.i = p + 1, !.current = Append(@, char)]

\* the rounds at the offsets lo .. hi - 1 in increasing order: those of the
\* first half of the range, then those of the second half unless the loop
\* is past it already
RECURSIVE SplitScan(_, _, _, _)
SplitScan(text, lo, hi, st) ==
    IF hi <= lo THEN st
    ELSE IF hi = lo + 1 THEN SplitStep(text, st, lo)
    ELSE LET first == SplitScan(text, lo, (lo + hi) \div 2, st)
         IN  IF first.i >= hi THEN first
             ELSE SplitScan(text, (lo + hi) \div 2, hi, first)

split_parts(text) ==
    LET st == SplitScan(text, 0, Len(text),
                        [i |-> 0, depth |-> 0, current |-> <<>>,
                         parts |-> <<>>])
    IN  IF st.current # <<>> THEN Append(st.parts, st.current) ELSE st.parts

(***************************************************************************)
(* Template.parse and TemplateArg.__init__.  A Template is a sequence of   *)
(* nodes: [kind |-> "text", text], [kind |-> "arg", name, hasDefault,      *)
(* default] with name and default Templates, or [kind |-> "raise"] where   *)
(* TemplateArg.__init__ raises IndexError (parts[0] of an empty argument). *)
(***************************************************************************)
TemplateText(t) == [kind |-> "text", text |-> t]

RECURSIVE TemplateParse(_)
RECURSIVE TemplateArg(_)
RECURSIVE ParseSpans(_, _, _, _)

ParseSpans(body, spans, k, start) ==
    IF k > Len(spans) THEN <<TemplateText(Slice(body, start, Len(body)))>>
    ELSE <<TemplateText(Slice(body, start, spans[k][1])),
           TemplateArg(Slice(body, spans[k][1] + 3, spans[k][2] - 3))>>
         \o ParseSpans(body, spans, k + 1, spans[k][2])

TemplateParse(body) == ParseSpans(body, find_matching_braces(body, 3), 1, 0)

\* a variant whose default is everything behind the first top-level '|'
TemplateArgRestDefault(parameter) ==
    LET parts == split_parts(parameter)
        bar == IF parts = <<>> THEN 0 ELSE Len(parts[1])
    IN  IF parts = <<>> THEN [kind |-> "raise"]
        ELSE [kind |-> "arg",
              name |-> TemplateParse(parts[1]),
              hasDefault |-> bar < Len(parameter),
              default |-> IF bar < Len(parameter)
                          THEN TemplateParse(Slice(parameter, bar + 1,
                                                   Len(parameter)))
                          ELSE <<>>]

TemplateArg(parameter) ==
    LET parts == split_parts(parameter)
    IN  IF parts = <<>> THEN [kind |-> "raise"]
        ELSE [kind |-> "arg",
              name |-> TemplateParse(parts[1]),
              hasDefault |-> Len(parts) > 1,
              default |-> IF Len(parts) > 1 THEN TemplateParse(parts[2])
                          ELSE <<>>]

\* Template.parse(body) raises
RECURSIVE ParseRaises(_)
ParseRaises(tpl) ==
    \E k \in 1..Len(tpl) :
        \/ tpl[k].kind = "raise"
        \/ /\ tpl[k].kind = "arg"
           /\ \/ ParseRaises(tpl[k].name)
              \/ tpl[k].hasDefault /\ ParseRaises(tpl[k].default)

(***************************************************************************)
(* Parser functions (parser_functions.py).  A result may be None           *)
(* (sharp_switch); args[1] is Python's args[0].                            *)
(***************************************************************************)
\* a variant that takes the else value when the then value is empty
sharp_ifElseWhenThenEmpty(args) ==
    IF Strip(args[1]) # <<>> /\ Strip(args[2]) # <<>>
    THEN Str(Strip(args[2]))
    ELSE IF Len(args) >= 3 /\ args[3] # <<>> THEN Str(Strip(args[3]))
    ELSE Str(<<>>)

\* sharp_if(test_value, value_if_true, value_if_false=None, *args)
sharp_if(args) ==
    IF Strip(args[1]) # <<>>
    THEN Str(Strip(args[2]))
    ELSE IF Len(args) >= 3 /\ args[3] # <<>> THEN Str(Strip(args[3]))
    ELSE Str(<<>>)

\* sharp_ifeq(lvalue, rvalue, value_if_true, value_if_false=None, *args)
sharp_ifeq(args) ==
    IF Strip(args[2]) # <<>> /\ Strip(args[1]) = Strip(args[2])
    THEN Str(Strip(args[3]))
    ELSE IF Len(args) >= 4 /\ args[4] # <<>> THEN Str(Strip(args[4]))
    ELSE Str(<<>>)

\* str.split(sep) on a one-character separator
RECURSIVE SplitOn(_, _, _)
SplitOn(t, sep, current) ==
    IF t = <<>> THEN <<current>>
    ELSE IF t[1] = sep THEN <<current>> \o SplitOn(Tail(t), sep, <<>>)
    ELSE SplitOn(Tail(t), sep, Append(current, t[1]))

\* param.split('=', 1): lvalue and rvalue (None without '=') of a case
SwitchLabel(param) ==
    LET eq == Find(param, "=")
    IN  Strip(IF eq < 0 THEN param ELSE Slice(param, 0, eq))

SwitchValue(param) ==
    LET eq == Find(param, "=")
    IN  IF eq < 0 THEN None ELSE Str(Strip(Slice(param, eq + 1, Len(param))))

SwitchHit(primary, param) ==
    LET labels == SplitOn(SwitchLabel(param), "|", <<>>)
    IN  \E k \in 1..Len(labels) : Strip(labels[k]) = primary

\* a variant in which a #default case ends the loop like a matching case
RECURSIVE SwitchLoopDefaultEnds(_, _, _)
SwitchLoopDefaultEnds(primary, params, default) ==
    IF params = <<>>
    THEN IF default.none \/ default.val = <<>> THEN Str(<<>>) ELSE default
    ELSE IF \/ SwitchHit(primary, params[1])
            \/ SwitchLabel(params[1]) = <<"#", "d", "e", "f", "a", "u", "l", "t">>
    THEN IF SwitchValue(params[1]).none THEN Str(<<>>)
         ELSE SwitchValue(params[1])
    ELSE SwitchLoopDefaultEnds(primary, Tail(params), default)

\* the loop of sharp_switch: found is never set, rvalue is None at the end
RECURSIVE SwitchLoop(_, _, _)
SwitchLoop(primary, params, default) ==
    IF params = <<>>
    THEN IF default.none \/ default.val = <<>> THEN Str(<<>>) ELSE default
    ELSE IF SwitchHit(primary, params[1]) THEN SwitchValue(params[1])
    ELSE SwitchLoop(primary, Tail(params),
                    IF SwitchLabel(params[1]) = <<"#", "d", "e", "f", "a", "u", "l", "t">>
                    THEN SwitchValue(params[1]) ELSE default)

sharp_switch(args) == SwitchLoop(Strip(args[1]), Tail(args), None)

\* sharp_iferror(test, then='', else_val=None, *args); the texts of the
\* model hold no '<', so the error pattern never matches
sharp_iferror(args) ==
    IF Len(args) >= 3 THEN Str(Strip(args[3])) ELSE Str(Strip(args[1]))

\* call_parser_function: the dispatch table; an exception (a missing
\* argument) and an unknown name give "".  '#expr' (eval), 'urlencode' and
\* 'int' are outside the model: no document of the model spells them.
call_parser_function(function_name, args) ==
    CASE function_name = <<"#", "i", "f">> ->
            IF Len(args) >= 2 THEN sharp_if(args) ELSE Str(<<>>)
      [] function_name = <<"#", "i", "f", "e", "q">> ->
            IF Len(args) >= 3 THEN sharp_ifeq(args) ELSE Str(<<>>)
      [] function_name = <<"#", "s", "w", "i", "t", "c", "h">> -> sharp_switch(args)
      [] function_name = <<"#", "i", "f", "e", "r", "r", "o", "r">> -> sharp_iferror(args)
      [] function_name = <<"l", "c">> -> Str(Lower(args[1]))
      [] function_name = <<"u", "c">> -> Str(Upper(args[1]))
      [] function_name = <<"l", "c", "f", "i", "r", "s", "t">> -> Str(lcfirst(args[1]))
      [] function_name = <<"u", "c", "f", "i", "r", "s", "t">> -> Str(ucfirst(args[1]))
      [] function_name \in {<<"#", "e", "x", "p", "r">>, <<"u", "r", "l", "e", "n", "c", "o", "d", "e">>, <<"i", "n", "t">>} ->
            CHOOSE outside \in {} : TRUE
      [] OTHER -> Str(<<>>)

(***************************************************************************)
(* The configuration an Extractor runs under.                              *)
(***************************************************************************)
\* MAX_TEMPLATE_RECURSION_LEVELS, MAX_PARAMETER_RECURSION_LEVELS
MAX_TEMPLATE_RECURSION_LEVELS == 30
MAX_PARAMETER_RECURSION_LEVELS == 16

\* Extractor.discardTemplates, Extractor.ignoreTemplates (lower-case titles)
discardTemplates == {<<"d", "e", "n", "y">>, <<"g">>, <<"p", "d", "f">>}
ignoreTemplates == {<<"g">>}

KNOWN_NAMESPACES == {<<"T", "e", "m", "p", "l", "a", "t", "e">>}

\* the title of the article being extracted (Extractor.title); it holds
\* markup, which a magic word must hand back as it is
ArticleTitle == <<"{", "{", "X", "}", "}">>

\* Extractor.magicWords.values once the article's words are set
\* (magic_words.py:119, extractor.py:97-99); the clock words are left out
magicWords ==
    LET colon == Find(ArticleTitle, ":")
    IN  [w \in {<<"!">>, <<"n", "a", "m", "e", "s", "p", "a", "c", "e">>, <<"p", "a", "g", "e", "n", "a", "m", "e">>, <<"f", "u", "l", "l", "p", "a", "g", "e", "n", "a", "m", "e">>} |->
            IF w = <<"!">> THEN <<"|">>
            ELSE IF w = <<"n", "a", "m", "e", "s", "p", "a", "c", "e">>
            THEN Slice(ArticleTitle, 0, IF colon > 0 THEN colon ELSE 0)
            ELSE ArticleTitle]

(***************************************************************************)
(* NOT_EXPAND_TEMPLATES_RE matched at the start of the title, ignoring     *)
(* case: a literal prefix, a title of blanks only, or one of three words   *)
(* anywhere on the first line of the title.                                *)
(***************************************************************************)
NotExpandPrefixes ==
    { <<"'">>,
      <<"!">>,
      <<"i", "s", "b", "n">>,
      <<"n", "o", "t", "e", "l", "i", "s", "t">>,
      <<"r", "p">>,
      <<"m", "f">>,
      <<"p", "i", "e", " ", "c", "h", "a", "r", "t">>,
      <<"g", "r", "a", "p", "h">>,
      <<"f", "l", "a", "g">>,
      <<"p", "d", "f">>,
      <<"i", "n", "c", "r", "e", "a", "s", "e">>,
      <<"d", "e", "c", "r", "e", "a", "s", "e">>,
      <<"c", "o", "l", "o", "r">> }

NotExpandAnywhere == { <<"i", "n", "f", "o", "b", "o", "x">>, <<"i", "n", "f", "o", "t", "a", "b", "l", "e">>, <<"i", "m", "a", "g", "e">> }

NotExpand(title) ==
    \/ \E pat \in NotExpandPrefixes : MatchCI(pat, title)
    \/ title # <<>> /\ \A k \in 1..Len(title) : IsSpace(title[k])
    \/ \E pat \in NotExpandAnywhere : \E p \in 0..Len(title) :
          /\ StartsWith(Lower(title), p, pat)
          /\ \A k \in 1..p : title[k] # "\n"

\* the coordinate template with other than three parts
\* (template_processor.py:191-221); st = [c1, c2, d1, d2, completed]
IsOtherArg(e) ==
    LET n == LeadRun(e, WordChars)
    IN  n < Len(e) /\ e[n + 1] \in {"=", ":"}

StartsCI(e, chars) == e # <<>> /\ LowerChar(e[1]) \in chars

RECURSIVE CoordLoop(_, _)
CoordLoop(es, st) ==
    IF es = <<>> THEN st
    ELSE LET e == es[1]
         IN  IF StartsCI(e, {"n", "s"})
             THEN CoordLoop(Tail(es), [st EXCEPT !.d1 = e, !.completed = TRUE])
             ELSE IF ~st.completed
             THEN CoordLoop(Tail(es), [st EXCEPT !.c1 = Append(@, e)])
             ELSE IF StartsCI(e, {"w", "e"})
             THEN [st EXCEPT !.d2 = e]
             ELSE IF ~IsOtherArg(e)
             THEN CoordLoop(Tail(es), [st EXCEPT !.c2 = Append(@, e)])
             ELSE st

_aux_template_coord_aux_var == << <<"º">>, <<"'">>, <<"'", "'">> >>

RECURSIVE CoordJoin(_, _)
CoordJoin(c, i) ==
    IF i > Len(c) \/ i > Len(_aux_template_coord_aux_var) THEN <<>>
    ELSE c[i] \o _aux_template_coord_aux_var[i] \o CoordJoin(c, i + 1)

Coord(parts) ==
    IF Len(parts) = 3
    THEN parts[2] \o <<"º", "N", ",", " ">> \o parts[3] \o <<" ", "º", "W">>
    ELSE LET st == CoordLoop(Tail(parts),
                     [c1 |-> <<>>, c2 |-> <<>>, d1 |-> <<>>, d2 |-> <<>>,
                      completed |-> FALSE])
         IN  IF (\E k \in 1..Len(st.c1) : st.c1[k] # <<>>)
                /\ Len(st.c1) = Len(st.c2)
             THEN CoordJoin(st.c1, 1) \o st.d1 \o <<",", " ">>
                  \o CoordJoin(st.c2, 1) \o st.d2
             ELSE <<>>

\* the special-case titles of expand_template that return without a call
\* (language is not set, so a lang- template gives '')
IsSpecialTitle(title) ==
    \/ MatchCI(<<"l", "a", "n", "g">>, title)
    \/ MatchCI(<<"i", "p", "a">>, title)
    \/ MatchCI(<<"c", "o", "o", "r", "d">>, title)
    \/ MatchCI(<<"a", "u", "d", "i", "o">>, title)

SpecialValue(title, parts) ==
    IF MatchCI(<<"l", "a", "n", "g", "-">>, title) THEN <<>>
    ELSE IF MatchCI(<<"l", "a", "n", "g">>, title)
    THEN IF Len(parts) < 3 THEN <<>> ELSE parts[3]
    ELSE IF MatchCI(<<"i", "p", "a">>, title)
    THEN IF Len(parts) < 2 THEN <<>> ELSE parts[2]
    ELSE IF MatchCI(<<"c", "o", "o", "r", "d">>, title) THEN Coord(parts)
    ELSE IF Len(parts) = 3 THEN parts[3] ELSE <<>>

IsSegle(title) == MatchCI(<<"s", "e", "g", "l", "e">>, title)

SegleCall(parts) == <<"{", "{", "u", "c", ":">> \o parts[2] \o <<"}", "}">>

SegleValue(segle, parts) ==
    IF Len(parts) >= 3 /\ parts[3] = <<"-">> THEN <<"s", "e", "g", "l", "e", " ">> \o segle \o <<" ", "a", "C">>
    ELSE <<"s", "e", "g", "l", "e", " ">> \o segle

\* substWords: the title without a leading subst: or safesubst:
IsSubst(title) == MatchCI(<<"s", "u", "b", "s", "t", ":">>, title) \/ MatchCI(<<"s", "a", "f", "e", "s", "u", "b", "s", "t", ":">>, title)

StripSubst(title) ==
    IF MatchCI(<<"s", "u", "b", "s", "t", ":">>, title) THEN Slice(title, 6, Len(title))
    ELSE IF MatchCI(<<"s", "a", "f", "e", "s", "u", "b", "s", "t", ":">>, title) THEN Slice(title, 10, Len(title))
    ELSE title

\* fully_qualified_template_title (text_utils.py)
fully_qualified_template_title(template_title) ==
    LET colon == Find(template_title, ":")
        nl == FindFrom(template_title, "\n", colon)
        stop == IF nl < 0 THEN Len(template_title) ELSE nl
        prefix == ucfirst(Slice(template_title, 0, colon))
    IN  IF colon = 0 THEN ucfirst(Tail(template_title))
        ELSE IF colon > 0 /\ prefix \in KNOWN_NAMESPACES
        THEN prefix \o ucfirst(Slice(template_title, colon, stop))
        ELSE IF template_title # <<>>
        THEN <<"T", "e", "m", "p", "l", "a", "t", "e", ":">> \o ucfirst(template_title)
        ELSE <<>>

\* BeautifulSoup(instantiated, 'html.parser').get_text(): the texts of the
\* model hold no tag and no entity, and such a text comes back as it is
HtmlText(instantiated) == instantiated

(***************************************************************************)
(* The expander: expand_templates, expand_template, Template.subst and     *)
(* TemplateArg.subst as one machine.  Every call in progress has an        *)
(* activation record on callStack; ret holds the value the last call returned  *)
(* (None is the discard value).  An exception nothing catches ends the     *)
(* run with outcome "raised".  m is the machine state as a record and      *)
(* each handler below gives the state after one step of the code.          *)
(***************************************************************************)
M ==
    [stack |-> callStack, ret |-> ret, outcome |-> outcome, frame |-> frame,
     templates |-> templates, templateCache |-> templateCache,
     recursion_exceeded_1_errs |-> recursion_exceeded_1_errs,
     recursion_exceeded_2_errs |-> recursion_exceeded_2_errs,
     recursion_exceeded_3_errs |-> recursion_exceeded_3_errs,
     template_title_errs |-> template_title_errs,
     discardHit |-> discardHit]

Becomes(m) ==
    /\ callStack' = m.stack /\ ret' = m.ret /\ outcome' = m.outcome
    /\ frame' = m.frame
    /\ templates' = m.templates /\ templateCache' = m.templateCache
    /\ recursion_exceeded_1_errs' = m.recursion_exceeded_1_errs
    /\ recursion_exceeded_2_errs' = m.recursion_exceeded_2_errs
    /\ recursion_exceeded_3_errs' = m.recursion_exceeded_3_errs
    /\ template_title_errs' = m.template_title_errs
    /\ discardHit' = m.discardHit

Top(m) == m.stack[Len(m.stack)]

\* return value: the activation ends; the outermost one ends the run
Return(m, value) ==
    [m EXCEPT !.stack = Front(@), !.ret = value,
              !.outcome = IF Len(m.stack) = 1 THEN "returned" ELSE @]

Raise(m) == [m EXCEPT !.outcome = "raised"]

\* the running activation goes on as f
Goto(m, f) == [m EXCEPT !.stack[Len(m.stack)] = f]

\* the running activation, now f, calls callee
Call(m, f, callee) ==
    [m EXCEPT !.stack = Append([@ EXCEPT ![Len(@)] = f], callee)]

ExpandTemplatesCall(text) ==
    [proc |-> "expand_templates", pc |-> "enter", wikitext |-> text,
     spans |-> <<>>, k |-> 1, cur |-> 0, result |-> <<>>]

ExpandTemplateCall(body) ==
    [proc |-> "expand_template", pc |-> "enter", body |-> body,
     parts |-> <<>>, title |-> <<>>, template |-> <<>>, params |-> <<>>,
     j |-> 0]

TemplateSubstCall(tpl, params, depth) ==
    [proc |-> "Template.subst", pc |-> "enter", tpl |-> tpl,
     params |-> params, depth |-> depth, k |-> 1, acc |-> <<>>]

TemplateArgSubstCall(arg, params, depth) ==
    [proc |-> "TemplateArg.subst", pc |-> "enter", arg |-> arg,
     params |-> params, depth |-> depth]

(***************************************************************************)
(* expand_templates (template_processor.py:44-88)                          *)
(***************************************************************************)
\* the ceiling test; find_matching_braces(None, 2) raises TypeError
ExpandTemplatesEnter(m) ==
    LET f == Top(m)
    IN  IF Len(m.frame) >= MAX_TEMPLATE_RECURSION_LEVELS
        THEN Return([m EXCEPT !.recursion_exceeded_1_errs = @ + 1], None)
        ELSE IF f.wikitext.none THEN Raise(m)
        ELSE Goto(m, [f EXCEPT
                        !.spans = find_matching_braces(f.wikitext.val, 2),
                        !.pc = "loop"])

\* the head of the for loop, and the leftover text after it
ExpandTemplatesLoop(m) ==
    LET f == Top(m)
        text == f.wikitext.val
    IN  IF f.k > Len(f.spans)
        THEN Return(m, Str(f.result \o Slice(text, f.cur, Len(text))))
        ELSE Call(m, [f EXCEPT !.pc = "got"],
                  ExpandTemplateCall(Slice(text, f.spans[f.k][1] + 2,
                                           f.spans[f.k][2] - 2)))

\* content = expand_template(...) has returned
ExpandTemplatesGot(m) ==
    LET f == Top(m)
        text == f.wikitext.val
    IN  IF m.ret.none THEN Return(m, None)
        ELSE Goto(m, [f EXCEPT
                        !.result = @ \o Slice(text, f.cur, f.spans[f.k][1])
                                     \o m.ret.val,
                        !.cur = f.spans[f.k][2],
                        !.k = @ + 1,
                        !.pc = "loop"])

(***************************************************************************)
(* expand_template (template_processor.py:90-352)                          *)
(***************************************************************************)
\* the ceiling test, split_parts, and the call that expands the title;
\* parts[0] of an empty body raises IndexError
ExpandTemplateEnter(m) ==
    LET f == Top(m)
        parts == split_parts(f.body)
    IN  IF Len(m.frame) >= MAX_TEMPLATE_RECURSION_LEVELS
        THEN Return([m EXCEPT !.recursion_exceeded_2_errs = @ + 1], Str(<<>>))
        ELSE IF parts = <<>> THEN Raise(m)
        ELSE Call(m, [f EXCEPT !.parts = parts, !.pc = "title"],
                  ExpandTemplatesCall(Str(Strip(parts[1]))))

\* frame.append((title, params)) and the call template.subst(params, self)
Instantiate(m, f, params) ==
    LET dict == parse_template_parameters(params)
    IN  Call([m EXCEPT !.frame = Append(@, <<f.title, dict>>)],
             [f EXCEPT !.pc = "subst"],
             TemplateSubstCall(f.template, dict, 0))

\* lines 263-330: the template is fetched (and parsed into the cache), then
\* its parameters are expanded one after the other unless subst is set
FetchTemplate(m, f, name, subst) ==
    LET title == fully_qualified_template_title(name)
        cached == title \in DOMAIN m.templateCache
        stored == title \in DOMAIN m.templates
        template == IF cached THEN m.templateCache[title]
                    ELSE TemplateParse(m.templates[title])
        m1 == IF cached THEN m
              ELSE [m EXCEPT
                      !.templateCache = DictSet(@, title, template),
                      !.templates = [t \in DOMAIN @ \ {title} |-> @[t]]]
        f1 == [f EXCEPT !.title = title, !.template = template]
        params == Tail(f.parts)
    IN  IF title = <<>>
        THEN Return([m EXCEPT !.template_title_errs = @ + 1], Str(<<>>))
        ELSE IF ~cached /\ ~stored THEN Return(m, Str(<<>>))
        ELSE IF ~cached /\ ParseRaises(template) THEN Raise(m)
        ELSE IF subst
        THEN Instantiate(m1, f1, [k \in 1..Len(params) |-> Str(params[k])])
        ELSE IF params = <<>> THEN Instantiate(m1, f1, <<>>)
        ELSE Call(m1, [f1 EXCEPT !.pc = "param", !.j = 1],
                  ExpandTemplatesCall(Str(params[1])))

\* lines 229-260: subst words, magic words, parser functions
ResolveTitle(m, f, title) ==
    LET subst == IsSubst(title)
        name == StripSubst(title)
        colon == Find(name, ":")
        args == <<Strip(Slice(name, colon + 1, Len(name)))>> \o Tail(f.parts)
    IN  IF Lower(name) \in DOMAIN magicWords
        THEN Return(m, Str(magicWords[Lower(name)]))
        ELSE IF colon > 1
        THEN Call(m, [f EXCEPT !.pc = "call"],
                  ExpandTemplatesCall(
                      call_parser_function(Slice(name, 0, colon), args)))
        ELSE FetchTemplate(m, f, name, subst)

\* a variant that looks at the discard list before the other two rules
ExpandTemplateTitleDiscardFirst(m) ==
    LET f == Top(m)
        title == m.ret.val
    IN  IF m.ret.none THEN Return(m, None)
        ELSE IF Lower(title) \in discardTemplates
        THEN Return([m EXCEPT !.discardHit = TRUE], None)
        ELSE IF NotExpand(title) THEN Return(m, Str(<<>>))
        ELSE IF Lower(title) \in ignoreTemplates THEN Return(m, Str(<<>>))
        ELSE IF IsSpecialTitle(title)
        THEN Return(m, Str(SpecialValue(title, f.parts)))
        ELSE IF IsSegle(title)
        THEN IF Len(f.parts) < 2 THEN Return(m, Str(<<>>))
             ELSE Call(m, [f EXCEPT !.pc = "segle"],
                       ExpandTemplatesCall(Str(SegleCall(f.parts))))
        ELSE ResolveTitle(m, f, title)

\* title = expand_templates(parts[0].strip()) has returned: lines 110-227
ExpandTemplateTitle(m) ==
    LET f == Top(m)
        title == m.ret.val
    IN  IF m.ret.none THEN Return(m, None)
        ELSE IF NotExpand(title) THEN Return(m, Str(<<>>))
        ELSE IF Lower(title) \in ignoreTemplates THEN Return(m, Str(<<>>))
        ELSE IF Lower(title) \in discardTemplates
        THEN Return([m EXCEPT !.discardHit = TRUE], None)
        ELSE IF IsSpecialTitle(title)
        THEN Return(m, Str(SpecialValue(title, f.parts)))
        ELSE IF IsSegle(title)
        THEN IF Len(f.parts) < 2 THEN Return(m, Str(<<>>))
             ELSE Call(m, [f EXCEPT !.pc = "segle"],
                       ExpandTemplatesCall(Str(SegleCall(f.parts))))
        ELSE ResolveTitle(m, f, title)

\* segle = expand_templates(segle_tpl) has returned
ExpandTemplateSegle(m) ==
    IF m.ret.none THEN Return(m, None)
    ELSE Return(m, Str(SegleValue(m.ret.val, Top(m).parts)))

\* call_result = expand_templates(ret) has returned
ExpandTemplateCalled(m) ==
    IF m.ret.none THEN Return(m, Str(<<>>)) ELSE Return(m, m.ret)

\* one parameter has been expanded (line 315)
ExpandTemplateParam(m) ==
    LET f == Top(m)
        rest == Tail(f.parts)
        params == Append(f.params, m.ret)
    IN  IF f.j < Len(rest)
        THEN Call(m, [f EXCEPT !.params = params, !.j = @ + 1],
                  ExpandTemplatesCall(Str(rest[f.j + 1])))
        ELSE Instantiate(m, [f EXCEPT !.params = params], params)

\* instantiated = template.subst(params, self) has returned
ExpandTemplateInstantiated(m) ==
    Call(m, [Top(m) EXCEPT !.pc = "value"],
         ExpandTemplatesCall(Str(HtmlText(m.ret.val))))

\* value = expand_templates(instantiated_html_clean) has returned; a
\* discarded value gives '' and leaves the frame on the stack
ExpandTemplateValue(m) ==
    IF m.ret.none THEN Return(m, Str(<<>>))
    ELSE Return([m EXCEPT !.frame = Front(@)],
                Str(balance_brackets(m.ret.val)))

(***************************************************************************)
(* Template.subst and TemplateArg.subst (template_engine.py:132-240).      *)
(* extractor.expandTemplates is Extractor.expandTemplates                  *)
(* (extractor.py:186-197), which hands the text to expand_templates.       *)
(***************************************************************************)
TemplateSubstEnter(m) ==
    LET f == Top(m)
    IN  IF f.depth > MAX_PARAMETER_RECURSION_LEVELS
        THEN Return([m EXCEPT !.recursion_exceeded_3_errs = @ + 1], Str(<<>>))
        ELSE Goto(m, [f EXCEPT !.pc = "loop"])

\* the next element of the template: a text is copied, an argument called
TemplateSubstLoop(m) ==
    LET f == Top(m)
    IN  IF f.k > Len(f.tpl) THEN Return(m, Str(f.acc))
        ELSE IF f.tpl[f.k].kind = "text"
        THEN Goto(m, [f EXCEPT !.acc = @ \o f.tpl[f.k].text, !.k = @ + 1])
        ELSE Call(m, [f EXCEPT !.pc = "got"],
                  TemplateArgSubstCall(f.tpl[f.k], f.params, f.depth))

TemplateSubstGot(m) ==
    LET f == Top(m)
    IN  Goto(m, [f EXCEPT !.acc = @ \o m.ret.val, !.k = @ + 1, !.pc = "loop"])

\* param_name = self.name.subst(params, extractor, depth + 1)
TemplateArgSubstEnter(m) ==
    LET f == Top(m)
    IN  Call(m, [f EXCEPT !.pc = "name"],
             TemplateSubstCall(f.arg.name, f.params, f.depth + 1))

\* param_name = extractor.expandTemplates(param_name)
TemplateArgSubstName(m) ==
    Call(m, [Top(m) EXCEPT !.pc = "lookup"], ExpandTemplatesCall(m.ret))

\* the lookup of param_name in params, else the default
TemplateArgSubstLookup(m) ==
    LET f == Top(m)
    IN  IF ~m.ret.none /\ m.ret.val \in DOMAIN f.params
        THEN Return(m, Str(f.params[m.ret.val]))
        ELSE IF f.arg.hasDefault
        THEN Call(m, [f EXCEPT !.pc = "default"],
                  TemplateSubstCall(f.arg.default, f.params, f.depth + 1))
        ELSE Return(m, Str(<<>>))

\* result = extractor.expandTemplates(default_value)
TemplateArgSubstDefault(m) ==
    Call(m, [Top(m) EXCEPT !.pc = "expanded"], ExpandTemplatesCall(m.ret))

TemplateArgSubstExpanded(m) ==
    IF m.ret.none THEN Return(m, Str(<<>>)) ELSE Return(m, m.ret)

(***************************************************************************)
(* The expander specification.  A run is one top-level expand_templates    *)
(* call on a document, with a template store the caller has filled         *)
(* (title -> body), an empty cache and an empty frame stack.  Documents    *)
(* are the texts of at most MaxDocTokens tokens and the documents of       *)
(* Documents; stores are those of Stores.                                  *)
(***************************************************************************)
Stored(name) == <<"T", "e", "m", "p", "l", "a", "t", "e", ":">> \o name

DocTokens == {<<"{", "{">>, <<"}", "}">>, <<"|">>, <<"X">>, <<"d", "e", "n", "y">>}

RECURSIVE Flatten(_)
Flatten(seqs) == IF seqs = <<>> THEN <<>> ELSE seqs[1] \o Flatten(Tail(seqs))

TokenDocs ==
    {Flatten(ts) : ts \in UNION {[1..k -> DocTokens] : k \in 0..MaxDocTokens}}

Documents ==
    { <<"{", "{", "X", "}", "}">>,
      <<"a", "{", "{", "X", "}", "}", "b", "{", "{", "X", "}", "}">>,
      <<"{", "{", "X", "|", "{", "{", "d", "e", "n", "y", "}", "}", "}", "}">>,
      <<"a", "{", "{", "X", "|", "b", "|", "n", "=", "c", "}", "}", "d">>,
      <<"{", "{", "a", "{", "{", "b", "}", "}", "c", "}", "}">>,
      <<"{", "{", "d", "e", "n", "y", "}", "}">>,
      <<"{", "{", "s", "e", "g", "l", "e", "|", "x", "|", "-", "}", "}">>,
      <<"{", "{", "#", "i", "f", ":", "a", "|", "{", "{", "d", "e", "n", "y", "}", "}", "|", "b", "}", "}">>,
      <<"{", "{", "#", "s", "w", "i", "t", "c", "h", ":", "a", "|", "a", "}", "}">>,
      <<"{", "{", "s", "u", "b", "s", "t", ":", "X", "|", "{", "{", "d", "e", "n", "y", "}", "}", "}", "}">>,
      <<"{", "{", "p", "a", "g", "e", "n", "a", "m", "e", "}", "}">>,
      <<"{", "{", "c", "o", "o", "r", "d", "|", "1", "|", "2", "}", "}">>,
      <<"{", "{", ":", "X", "}", "}">>,
      <<"{", "{", "g", "}", "}">>,
      <<"{", "{", " ", "X", " ", "|", " ", "{", "{", "X", "}", "}", " ", "}", "}">>,
      <<"{", "{", "Y", "}", "}">>,
      <<"{", "{", "c", "o", "o", "r", "d", "|", "1", "|", "2", "|", "N", "|", "3", "|", "4", "|", "W", "|", "a", "=", "b", "}", "}">>,
      <<"{", "{", "l", "a", "n", "g", "|", "x", "|", "y", "}", "}">>,
      <<"{", "{", "I", "P", "A", "|", "x", "}", "}">>,
      <<"{", "{", "a", "u", "d", "i", "o", "|", "a", "|", "b", "}", "}">>,
      <<"{", "{", "#", "s", "w", "i", "t", "c", "h", ":", "a", "|", "b", "=", "1", "|", "a", "=", "2", "}", "}">>,
      <<"{", "{", "#", "s", "w", "i", "t", "c", "h", ":", "c", "|", "b", "=", "1", "|", "#", "d", "e", "f", "a", "u", "l", "t", "=", "2", "}", "}">>,
      <<"{", "{", "#", "i", "f", "e", "q", ":", "a", "|", "a", "|", "y", "|", "n", "}", "}">>,
      <<"{", "{", "l", "c", ":", "A", "b", "C", "}", "}">>,
      <<"{", "{", "u", "c", "f", "i", "r", "s", "t", ":", "a", "b", "c", "}", "}">>,
      <<"{", "{", "s", "a", "f", "e", "s", "u", "b", "s", "t", ":", "X", "|", "a", "}", "}">>,
      <<"{", "{", "!", "}", "}">>,
      <<"{", "{", "I", "n", "f", "o", "b", "o", "x", " ", "x", "}", "}">>,
      <<"{", "{", "X", "|", "n", "=", "1", "|", "n", "=", "2", "}", "}">>,
      <<"{", "{", "X", "|", "{", "{", "X", "}", "}", "|", "{", "{", "d", "e", "n", "y", "}", "}", "}", "}">>,
      <<"{", "{", "}", "}">>,
      <<"[", "[", "a", "|", "{", "{", "X", "|", "b", "]", "]", "}", "}", "|", "c">>,
      <<"{", "{", "X", "|", "a", "|", "|", "c", "}", "}">>,
      <<"{", "{", "p", "d", "f", "}", "}">> }

Stores ==
    { EmptyDict,
      DictSet(EmptyDict, Stored(<<"X">>), <<"{", "{", "d", "e", "n", "y", "}", "}">>),
      DictSet(EmptyDict, Stored(<<"X">>), <<"{", "{", "X", "}", "}">>),
      DictSet(EmptyDict, Stored(<<"X">>), <<"a", "{", "{", "{", "1", "|", "{", "{", "d", "e", "n", "y", "}", "}", "}", "}", "}">>),
      DictSet(EmptyDict, Stored(<<"X">>), <<"{", "{", "{", "1", "}", "}", "}", "{", "{", "{", "n", "|", "b", "}", "}", "}">>),
      DictSet(DictSet(EmptyDict, Stored(<<"X">>), <<"{", "{", "Y", "}", "}">>), Stored(<<"Y">>), <<"b", "{", "{", "X", "}", "}">>),
      DictSet(EmptyDict, Stored(<<"X">>), <<"{", "{", "{", "}", "}", "}">>) }

\* stores run on the documents of Documents only: a template that invokes
\* itself in its own argument as well, and nested placeholders
DeepStores ==
    { DictSet(EmptyDict, Stored(<<"X">>), <<"{", "{", "X", "|", "{", "{", "X", "}", "}", "}", "}">>),
      DictSet(EmptyDict, Stored(<<"X">>), <<"{", "{", "{", " ", "{", "{", "{", "1", "}", "}", "}", " ", "|", "c", "}", "}", "}">>),
      DictSet(EmptyDict, Stored(<<"X">>), <<"{", "{", "{", "{", "{", "{", "1", "}", "}", "}", "}", "}", "}">>),
      DictSet(EmptyDict, Stored(<<"X">>), <<"{", "{", "#", "i", "f", ":", "{", "{", "{", "1", "|", "}", "}", "}", "|", "{", "{", "{", "1", "}", "}", "}", "|", "{", "{", "d", "e", "n", "y", "}", "}", "}", "}">>),
      DictSet(EmptyDict, Stored(<<"X">>), <<"a", "}", "}", "{", "{", "{", "{", "{", "1", "}", "}", "}">>),
      DictSet(EmptyDict, Stored(<<"X">>), <<"{", "{", "{", "1", "}", "}", "}", "{", "{", "{", "2", "|", "d", "}", "}", "}", "{", "{", "{", "3", "}", "}", "}">>) }

ExpandInputs ==
    ((TokenDocs \cup Documents) \X Stores) \cup (Documents \X DeepStores)

ExpandInit ==
    /\ mode = "expand"
    /\ FuncIdle
    /\ DropIdle
    /\ ArgIdle
    /\ BalIdle
    /\ ScanIdle
    /\ ParamIdle
    /\ CompactIdle
    /\ \E input \in ExpandInputs :
          wikitext = input[1] /\ templates = input[2]
    /\ templateCache = EmptyDict
    /\ frame = <<>>
    /\ callStack = <<ExpandTemplatesCall(Str(wikitext))>>
    /\ ret = None
    /\ outcome = "running"
    /\ recursion_exceeded_1_errs = 0
    /\ recursion_exceeded_2_errs = 0
    /\ recursion_exceeded_3_errs = 0
    /\ template_title_errs = 0
    /\ discardHit = FALSE

\* the running activation is in proc at pc
At(proc, pc) ==
    /\ mode = "expand" /\ outcome = "running"
    /\ callStack[Len(callStack)].proc = proc
    /\ callStack[Len(callStack)].pc = pc

ExpandRest == UNCHANGED <<mode, funcVars, dropVars, argVars, balVars, wikitext, scanVars, paramVars, compactVars>>

EtsEnter ==
    At("expand_templates", "enter") /\ Becomes(ExpandTemplatesEnter(M)) /\ ExpandRest
EtsLoop ==
    At("expand_templates", "loop") /\ Becomes(ExpandTemplatesLoop(M)) /\ ExpandRest
EtsGot ==
    At("expand_templates", "got") /\ Becomes(ExpandTemplatesGot(M)) /\ ExpandRest
EtEnter ==
    At("expand_template", "enter") /\ Becomes(ExpandTemplateEnter(M)) /\ ExpandRest
EtTitle ==
    At("expand_template", "title") /\ Becomes(ExpandTemplateTitle(M)) /\ ExpandRest
EtSegle ==
    At("expand_template", "segle") /\ Becomes(ExpandTemplateSegle(M)) /\ ExpandRest
EtCalled ==
    At("expand_template", "call") /\ Becomes(ExpandTemplateCalled(M)) /\ ExpandRest
EtParam ==
    At("expand_template", "param") /\ Becomes(ExpandTemplateParam(M)) /\ ExpandRest
EtInstantiated ==
    At("expand_template", "subst") /\ Becomes(ExpandTemplateInstantiated(M)) /\ ExpandRest
EtValue ==
    At("expand_template", "value") /\ Becomes(ExpandTemplateValue(M)) /\ ExpandRest
TsEnter ==
    At("Template.subst", "enter") /\ Becomes(TemplateSubstEnter(M)) /\ ExpandRest
TsLoop ==
    At("Template.subst", "loop") /\ Becomes(TemplateSubstLoop(M)) /\ ExpandRest
TsGot ==
    At("Template.subst", "got") /\ Becomes(TemplateSubstGot(M)) /\ ExpandRest
TaEnter ==
    At("TemplateArg.subst", "enter") /\ Becomes(TemplateArgSubstEnter(M)) /\ ExpandRest
TaName ==
    At("TemplateArg.subst", "name") /\ Becomes(TemplateArgSubstName(M)) /\ ExpandRest
TaLookup ==
    At("TemplateArg.subst", "lookup") /\ Becomes(TemplateArgSubstLookup(M)) /\ ExpandRest
TaDefault ==
    At("TemplateArg.subst", "default") /\ Becomes(TemplateArgSubstDefault(M)) /\ ExpandRest
TaExpanded ==
    At("TemplateArg.subst", "expanded") /\ Becomes(TemplateArgSubstExpanded(M)) /\ ExpandRest

ExpandNext ==
    \/ EtsEnter \/ EtsLoop \/ EtsGot
    \/ EtEnter \/ EtTitle \/ EtSegle \/ EtCalled \/ EtParam
    \/ EtInstantiated \/ EtValue
    \/ TsEnter \/ TsLoop \/ TsGot
    \/ TaEnter \/ TaName \/ TaLookup \/ TaDefault \/ TaExpanded

SpecExpand == ExpandInit /\ [][ExpandNext]_vars

(***************************************************************************)
(* Claims about the expander.                                              *)
(***************************************************************************)
\* C1: if a template whose title is on the discard list is reached at any
\* nesting depth during a top-level expand_templates call (directly in the
\* text, inside an argument, or inside the body of a stored template), the
\* top-level call returns the discard value None.
C1_DiscardPropagates ==
    (outcome = "returned" /\ discardHit) => ret.none

\* C2: for every document and every template store, a top-level
\* expand_templates call terminates by returning a string or the discard
\* value: a run that has stopped has returned, and what it returned is None
\* or a string.
C2_StopsByReturning ==
    outcome # "running" =>
        /\ outcome = "returned"
        /\ ret.none \/ ret.val \in Seq(STRING)

\* the offset cur holds when the loop of expand_templates is at span k
CurAt(spans, k) == IF k = 1 THEN 0 ELSE spans[k - 1][2]

\* C3: expand_templates copies verbatim only text outside the {{...}} spans
\* it replaces: no part of a replaced span's own raw markup (its braces or
\* its body) is copied into the result.
C3_NoRawMarkupCopied ==
    \A i \in 1..Len(callStack) :
        LET f == callStack[i]
        IN  (f.proc = "expand_templates" /\ f.pc \in {"loop", "got"}) =>
                \A k \in 1..(f.k - 1) :
                    \A p \in CurAt(f.spans, k)..(f.spans[k][1] - 1) :
                        \A q \in 1..Len(f.spans) :
                            ~(f.spans[q][1] <= p /\ p < f.spans[q][2])

(***************************************************************************)
(* The parser-function specification: sharp_if, sharp_ifeq and             *)
(* sharp_switch are called directly, with every positional argument the    *)
(* signature requires and the optional ones present or absent.             *)
(***************************************************************************)
FuncTexts == {<<>>, <<" ">>, <<"a">>, <<" ", "a", " ">>, <<"b">>}

FuncValues == {<<>>, <<" ">>, <<"y">>, <<" ", "n", " ">>}

\* the cases of a #switch call
SwitchCases ==
    { <<"a", "=", "1">>, <<"b", "=", "2">>, <<"a", "=">>, <<"a">>,
      <<"b">>, <<"a", "|", "b", "=", "3">>, <<" ", "a", " ", "=", " ", "4">>,
      <<"#", "d", "e", "f", "a", "u", "l", "t", "=", "9">>,
      <<"#", "d", "e", "f", "a", "u", "l", "t", "=", "8">>,
      <<"#", "d", "e", "f", "a", "u", "l", "t">>,
      <<"x", "=", "1">>, <<"y", "=", "2">> }

MaxCases == 3

FuncInputs ==
    ({"#if"} \X {<<test, then>> \o rest :
                    test \in FuncTexts, then \in FuncValues,
                    rest \in {<<>>} \cup {<<v>> : v \in FuncValues}})
    \cup
    ({"#ifeq"} \X {<<a, b, then>> \o rest :
                    a \in FuncTexts, b \in FuncTexts,
                    then \in {<<"y">>, <<" ", "y">>, <<>>},
                    rest \in {<<>>} \cup {<<v>> : v \in FuncValues}})
    \cup
    ({"#switch"} \X {<<primary>> \o cases :
                    primary \in {<<"a">>, <<" ", "a">>, <<"z">>, <<"b">>},
                    cases \in UNION {[1..k -> SwitchCases] : k \in 0..MaxCases}})

FuncInit ==
    /\ mode = "funcs"
    /\ ScanIdle
    /\ ParamIdle
    /\ CompactIdle
    /\ ExpandIdle
    /\ DropIdle
    /\ ArgIdle
    /\ BalIdle
    /\ \E input \in FuncInputs : f_name = input[1] /\ f_args = input[2]
    /\ f_out = None
    /\ f_pc = "in"

FuncRest ==
    UNCHANGED <<mode, f_name, f_args, scanVars, paramVars, compactVars,
                expandVars, dropVars, argVars, balVars>>

CallIf ==
    /\ mode = "funcs" /\ f_pc = "in" /\ f_name = "#if"
    /\ f_out' = sharp_if(f_args)
    /\ f_pc' = "done"
    /\ FuncRest

CallIfeq ==
    /\ mode = "funcs" /\ f_pc = "in" /\ f_name = "#ifeq"
    /\ f_out' = sharp_ifeq(f_args)
    /\ f_pc' = "done"
    /\ FuncRest

CallSwitch ==
    /\ mode = "funcs" /\ f_pc = "in" /\ f_name = "#switch"
    /\ f_out' = sharp_switch(f_args)
    /\ f_pc' = "done"
    /\ FuncRest

FuncNext == CallIf \/ CallIfeq \/ CallSwitch

SpecFuncs == FuncInit /\ [][FuncNext]_vars

(***************************************************************************)
(* Parser-function claims.                                                 *)
(***************************************************************************)
FuncDone(name) == f_pc = "done" /\ f_name = name

\* C11: for all strings a and b, sharp_ifeq(a, b, then, else) returns the
\* trimmed then value whenever a and b are equal after trimming, and the
\* trimmed else value, or the empty string when no else is given, whenever
\* they differ.
C11_IfeqSelects ==
    FuncDone("#ifeq") =>
        f_out = Str(IF Strip(f_args[1]) = Strip(f_args[2])
                    THEN Strip(f_args[3])
                    ELSE IF Len(f_args) >= 4 THEN Strip(f_args[4])
                    ELSE <<>>)

\* the cases of the call whose label, or one of its alternatives, equals the
\* trimmed primary, and the cases labelled #default
SwitchHits ==
    {k \in 2..Len(f_args) : SwitchHit(Strip(f_args[1]), f_args[k])}

SwitchDefaults ==
    {k \in 2..Len(f_args) :
        SwitchLabel(f_args[k]) = <<"#", "d", "e", "f", "a", "u", "l", "t">>}

Least(S) == CHOOSE k \in S : \A other \in S : k <= other

Greatest(S) == CHOOSE k \in S : \A other \in S : k >= other

OrEmpty(v) == IF v.none THEN Str(<<>>) ELSE v

\* C12: sharp_switch returns the value recorded for the #default label if
\* and only if no case label equals the trimmed primary (the empty string
\* when nothing is recorded); when some case matches, the first matching
\* case decides the result wherever #default stands in the case list.
C12_DefaultOnlyWithoutMatch ==
    FuncDone("#switch") =>
        IF SwitchHits = {}
        THEN f_out = IF SwitchDefaults = {} THEN Str(<<>>)
                     ELSE OrEmpty(SwitchValue(f_args[Greatest(SwitchDefaults)]))
        ELSE f_out = SwitchValue(f_args[Least(SwitchHits)])

\* #switch("z", "x=1", "y=2", "#default=9") gives "9"
C12_Witness ==
    /\ FuncDone("#switch")
    /\ f_args = << <<"z">>, <<"x", "=", "1">>, <<"y", "=", "2">>,
                   <<"#", "d", "e", "f", "a", "u", "l", "t", "=", "9">> >>
    /\ f_out = Str(<<"9">>)

\* C13: sharp_if(test, then, else): when test is non-empty after trimming
\* the result is the trimmed then value (empty if then is empty or
\* whitespace); when test is empty or whitespace the result is the trimmed
\* else value if one is given and the empty string otherwise.
C13_IfSelects ==
    FuncDone("#if") =>
        f_out = Str(IF Strip(f_args[1]) # <<>> THEN Strip(f_args[2])
                    ELSE IF Len(f_args) >= 3 THEN Strip(f_args[3])
                    ELSE <<>>)

\* a non-empty test with a blank then value and an else value: the result
\* is empty
C13_Witness ==
    /\ FuncDone("#if")
    /\ f_args = << <<" ", "a", " ">>, <<" ">>, <<" ", "n", " ">> >>
    /\ f_out = Str(<<>>)

\* C20: in sharp_switch a case whose label matches the primary but whose
\* value is empty or absent falls through: the result is the value of the
\* next case in the list, not the empty value of the matched case.
C20_EmptyMatchFallsThrough ==
    FuncDone("#switch") =>
        \A k \in SwitchHits :
            (/\ k = Least(SwitchHits)
             /\ k < Len(f_args)
             /\ OrEmpty(SwitchValue(f_args[k])) = Str(<<>>))
                => f_out = SwitchValue(f_args[k + 1])

(***************************************************************************)
(* Scanner claims, continued.                                              *)
(***************************************************************************)
SpansDisjoint(a, b) == a[2] <= b[1] \/ b[2] <= a[1]

\* C18: for every text, balanced or not, every span (start, end) returned
\* by find_matching_braces satisfies start < end, and any two returned
\* spans are either disjoint or one contains the other; no two spans cross.
C18_SpansNeverCross ==
    s_pc \in {"found", "balanced", "rebalanced"} =>
        /\ \A i \in 1..Len(s_spans) : s_spans[i][1] < s_spans[i][2]
        /\ \A i, j \in 1..Len(s_spans) :
              i # j => \/ SpansDisjoint(s_spans[i], s_spans[j])
                       \/ SpanInside(s_spans[i], s_spans[j])
                       \/ SpanInside(s_spans[j], s_spans[i])

\* two spans are returned, one inside the other
C18_Witness ==
    /\ s_pc = "found"
    /\ s_n = 2
    /\ s_text = <<"{", "{", "{", "{", "}", "}", "}", "}">>
    /\ s_spans = << <<2, 6>>, <<0, 8>> >>

(***************************************************************************)
(* drop_nested and drop_spans (text_utils.py).  A match object is          *)
(* [none, s, e] with s = m.start() and e = m.end(); the delimiters of      *)
(* clean() are the literal patterns for two opening and two closing        *)
(* braces.                                                                 *)
(***************************************************************************)
NoMatch == [none |-> TRUE, s |-> 0, e |-> 0]

\* pattern.search(text, pos) for a literal pattern
Search(text, pat, pos) ==
    LET found == {i \in pos..(Len(text) - Len(pat)) : StartsWith(text, i, pat)}
    IN  IF found = {} THEN NoMatch
        ELSE LET first == CHOOSE i \in found : \A other \in found : i <= other
             IN  [none |-> FALSE, s |-> first, e |-> first + Len(pat)]

open_delim == <<"{", "{">>

close_delim == <<"}", "}">>

\* tuples in the order of list.sort()
SpanLess(a, b) == a[1] < b[1] \/ (a[1] = b[1] /\ a[2] < b[2])

RECURSIVE SortSpans(_)
SortSpans(spans) ==
    IF spans = <<>> THEN <<>>
    ELSE LET k == CHOOSE i \in 1..Len(spans) :
                      \A j \in 1..Len(spans) : ~SpanLess(spans[j], spans[i])
         IN  <<spans[k]>> \o
             SortSpans(SubSeq(spans, 1, k - 1) \o SubSeq(spans, k + 1, Len(spans)))

\* the for loop of drop_spans and the text after the last span
RECURSIVE DropLoop(_, _, _, _, _)
DropLoop(spans, text, k, offset, result) ==
    IF k > Len(spans) THEN result \o Slice(text, offset, Len(text))
    ELSE IF offset <= spans[k][1]
         THEN DropLoop(spans, text, k + 1, spans[k][2],
                       result \o Slice(text, offset, spans[k][1]))
         ELSE DropLoop(spans, text, k + 1, offset, result)

drop_spans(spans, text) == DropLoop(SortSpans(spans), text, 1, 0, <<>>)

\* a variant that closes nothing that is pending
ClosePendingNothing(text, nest, end) == end

\* while nest: close all pending
RECURSIVE ClosePending(_, _, _)
ClosePending(text, nest, end) ==
    IF nest = 0 THEN end
    ELSE LET end0 == Search(text, close_delim, end.e)
         IN  IF end0.none THEN end ELSE ClosePending(text, nest - 1, end0)

\* while end.end() < next_match.start(); st = [spans, nest, start, end,
\* next_match]
RECURSIVE DropInner(_, _)
DropInner(text, st) ==
    IF ~(st.end.e < st.next_match.s) THEN st
    ELSE IF st.nest # 0
    THEN LET end1 == Search(text, close_delim, st.end.e)
         IN  IF end1.none
             THEN [st EXCEPT
                     !.nest = @ - 1,
                     !.end = end1,
                     !.spans = << <<IF st.spans # <<>> THEN st.spans[1][1]
                                    ELSE st.start.s,
                                    st.end.e>> >>]
             ELSE DropInner(text, [st EXCEPT !.nest = @ - 1, !.end = end1])
    ELSE [st EXCEPT
            !.spans = Append(@, <<st.start.s, st.end.e>>),
            !.start = st.next_match,
            !.end = Search(text, close_delim, st.next_match.e)]

\* while end
RECURSIVE DropOuter(_, _)
DropOuter(text, st) ==
    IF st.end.none THEN st.spans
    ELSE LET next_match == Search(text, open_delim, st.next_match.e)
             inner == DropInner(text, [st EXCEPT !.next_match = next_match])
         IN  IF next_match.none
             THEN Append(st.spans,
                         <<st.start.s, ClosePending(text, st.nest, st.end).e>>)
             ELSE DropOuter(text, IF inner.next_match # inner.start
                                  THEN [inner EXCEPT !.nest = @ + 1]
                                  ELSE inner)

drop_nested(text) ==
    LET start == Search(text, open_delim, 0)
    IN  IF start.none THEN text
        ELSE drop_spans(
                 DropOuter(text, [spans |-> <<>>, nest |-> 0, start |-> start,
                                  end |-> Search(text, close_delim, start.e),
                                  next_match |-> start]),
                 text)

(***************************************************************************)
(* The drop specification: the input is any text over ScanChars of length  *)
(* at most MaxDropLen, or any run of at most MaxDropTokens delimiters and  *)
(* letters, and clean() calls drop_nested on it.                           *)
(***************************************************************************)
MaxDropLen == 8

MaxDropTokens == 7

DropTokens == {open_delim, close_delim, <<"a">>}

DropInputs ==
    Strs(ScanChars, MaxDropLen)
    \cup {Flatten(d) : d \in UNION {[1..k -> DropTokens] : k \in 0..MaxDropTokens}}

DropInit ==
    /\ mode = "drop"
    /\ ScanIdle
    /\ ParamIdle
    /\ CompactIdle
    /\ ExpandIdle
    /\ FuncIdle
    /\ ArgIdle
    /\ BalIdle
    /\ d_text \in DropInputs
    /\ d_out = <<>>
    /\ d_pc = "in"

DropTransclusions ==
    /\ mode = "drop" /\ d_pc = "in"
    /\ d_out' = drop_nested(d_text)
    /\ d_pc' = "done"
    /\ UNCHANGED <<mode, d_text, scanVars, paramVars, compactVars,
                   expandVars, funcVars, argVars, balVars>>

DropNext == DropTransclusions

SpecDrop == DropInit /\ [][DropNext]_vars

(***************************************************************************)
(* Drop claims.  A text is read from left to right as delimiters, single   *)
(* braces and letters: depth is the number of openers not closed yet,      *)
(* unmatched tells that a closer came at depth 0, single that a brace      *)
(* stands outside every delimiter, and outside holds the letters read at   *)
(* depth 0.                                                                *)
(***************************************************************************)
RECURSIVE BraceRead(_, _, _)
BraceRead(text, i, r) ==
    IF i >= Len(text) THEN r
    ELSE IF StartsWith(text, i, open_delim)
    THEN BraceRead(text, i + 2, [r EXCEPT !.depth = @ + 1])
    ELSE IF StartsWith(text, i, close_delim)
    THEN BraceRead(text, i + 2,
                   IF r.depth > 0 THEN [r EXCEPT !.depth = @ - 1]
                   ELSE [r EXCEPT !.unmatched = TRUE])
    ELSE IF text[i + 1] \in {"{", "}"}
    THEN BraceRead(text, i + 1, [r EXCEPT !.single = TRUE])
    ELSE BraceRead(text, i + 1,
                   IF r.depth = 0
                   THEN [r EXCEPT !.outside = Append(@, text[i + 1])]
                   ELSE r)

Reading(text) ==
    BraceRead(text, 0, [depth |-> 0, unmatched |-> FALSE, single |-> FALSE,
                        outside |-> <<>>])

\* a occurs in b as a subsequence
RECURSIVE IsSubsequence(_, _)
IsSubsequence(a, b) ==
    IF a = <<>> THEN TRUE
    ELSE IF b = <<>> THEN FALSE
    ELSE IF a[1] = b[1] THEN IsSubsequence(Tail(a), Tail(b))
    ELSE IsSubsequence(a, Tail(b))

\* C16: drop_nested only deletes regions that run from an opener match to a
\* closer match: every character lying outside all such regions (before
\* the first opener, between a closed region and the next opener, or after
\* the last closer) appears in the output, in its original order, also
\* when a later region is unbalanced.  Stated for the texts whose braces
\* all belong to delimiters: the letters read at depth 0 are kept in order.
C16_OutsideTextKept ==
    (d_pc = "done" /\ ~Reading(d_text).single) =>
        IsSubsequence(Reading(d_text).outside, d_out)

\* C17 as stated: for every text in which each opener is closed by a
\* matching closer (nested or sequential), the text after drop_nested
\* contains neither an opener nor a closer.
C17_NoDelimiterLeft ==
    (/\ d_pc = "done"
     /\ Reading(d_text).depth = 0
     /\ ~Reading(d_text).unmatched) =>
        ~Contains(d_out, open_delim) /\ ~Contains(d_out, close_delim)

\* C17, amended: the same for the texts that also hold no single brace
\* outside the delimiters.
C17_NoDelimiterLeftWithoutSingles ==
    (/\ d_pc = "done"
     /\ Reading(d_text).depth = 0
     /\ ~Reading(d_text).unmatched
     /\ ~Reading(d_text).single) =>
        ~Contains(d_out, open_delim) /\ ~Contains(d_out, close_delim)

\* a nested region, a letter and a second region: the letter is left
C17_Witness ==
    /\ d_pc = "done"
    /\ d_text = <<"{", "{", "{", "{", "}", "}", "}", "}", "a",
                  "{", "{", "}", "}">>
    /\ d_out = <<"a">>

(***************************************************************************)
(* Expander claims, continued.                                             *)
(***************************************************************************)
\* C14: when expand_templates is entered while the frame stack is at the
\* depth ceiling, it returns the discard value, and that discard propagates
\* unchanged through every enclosing expand_template / expand_templates
\* call, so the top-level result is discard and not a partial document: a
\* run in which the ceiling of expand_templates was hit returns None.
C14_CeilingDiscards ==
    (outcome = "returned" /\ recursion_exceeded_1_errs > 0) => ret.none

\* C15: expand_template returns the empty string, without raising and
\* without pushing a frame, for every invocation body whose title resolves
\* to no stored template, including the empty body and a body whose title
\* part is empty: no run stops by an exception raised where expand_template
\* takes the title part of its body, before any template is looked up.
C15_NoTitleNoException ==
    outcome = "raised" =>
        ~(/\ callStack[Len(callStack)].proc = "expand_template"
          /\ callStack[Len(callStack)].pc = "enter")

\* C19: every expand_template call that pushes a frame pops it before
\* returning, on every return path, so the frame stack is empty again when
\* a top-level expand_templates call returns.
C19_FramesPopped == outcome = "returned" => frame = <<>>

(***************************************************************************)
(* TemplateArg.__init__ on its own: a placeholder body is drawn, the       *)
(* object is built from it.                                                *)
(***************************************************************************)
MaxArgTokens == 4

ArgTokens == {<<"|">>, <<"a">>, <<"b">>, <<"{", "{">>, <<"}", "}">>,
              <<"[", "[">>, <<"]", "]">>}

ArgInputs ==
    {Flatten(run) : run \in Strs(ArgTokens, MaxArgTokens)}
    \cup {<<"1", "|", "{", "{", "{", "2", "|", "x", "}", "}", "}", "|", "c">>,
          <<"{", "{", "{", "1", "}", "}", "}", "|", "b", "|", "c", "|", "d">>}

ArgInit ==
    /\ mode = "arg"
    /\ ScanIdle
    /\ ParamIdle
    /\ CompactIdle
    /\ ExpandIdle
    /\ FuncIdle
    /\ DropIdle
    /\ BalIdle
    /\ a_param \in ArgInputs
    /\ a_out = <<>>
    /\ a_pc = "in"

BuildTemplateArg ==
    /\ mode = "arg" /\ a_pc = "in"
    /\ a_out' = TemplateArg(a_param)
    /\ a_pc' = "done"
    /\ UNCHANGED <<mode, a_param, scanVars, paramVars, compactVars,
                   expandVars, funcVars, dropVars, balVars>>

ArgNext == BuildTemplateArg

SpecArg == ArgInit /\ [][ArgNext]_vars

(***************************************************************************)
(* Placeholder claims.  A '|' is top-level when every doubled opening      *)
(* brace or bracket read before it has been closed by a doubled closing    *)
(* one; the doubled characters are read in pairs from left to right.       *)
(***************************************************************************)
RECURSIVE TopLevelBars(_, _, _)
TopLevelBars(text, i, depth) ==
    IF i >= Len(text) THEN <<>>
    ELSE IF i + 1 < Len(text) /\ text[i + 1] = text[i + 2]
            /\ text[i + 1] \in {"{", "["}
    THEN TopLevelBars(text, i + 2, depth + 1)
    ELSE IF i + 1 < Len(text) /\ text[i + 1] = text[i + 2]
            /\ text[i + 1] \in {"}", "]"}
    THEN TopLevelBars(text, i + 2, depth - 1)
    ELSE IF text[i + 1] = "|" /\ depth = 0
    THEN <<i>> \o TopLevelBars(text, i + 1, depth)
    ELSE TopLevelBars(text, i + 1, depth)

ArgBuilt == mode = "arg" /\ a_pc = "done" /\ a_out.kind = "arg"

\* C21 as stated: the name template is the text before the first top-level
\* '|' and the default template is all the text behind that '|', further
\* top-level '|' included; without a '|' there is no default.
C21_DefaultIsRest ==
    ArgBuilt =>
        LET bars == TopLevelBars(a_param, 0, 0)
        IN  IF bars = <<>>
            THEN a_out.name = TemplateParse(a_param) /\ ~a_out.hasDefault
            ELSE /\ a_out.name = TemplateParse(Slice(a_param, 0, bars[1]))
                 /\ a_out.hasDefault
                 /\ a_out.default
                      = TemplateParse(Slice(a_param, bars[1] + 1,
                                            Len(a_param)))

\* C21 (amended): the name template is the text before the first top-level
\* '|'; the default template is the text between the first and the second
\* top-level '|' (up to the end when there is no second one), and what
\* stands behind a second top-level '|' is ignored; the default is absent
\* when there is no top-level '|' and when nothing follows the only one.
C21_DefaultIsSecondPart ==
    ArgBuilt =>
        LET bars == TopLevelBars(a_param, 0, 0)
            stop == IF Len(bars) > 1 THEN bars[2] ELSE Len(a_param)
        IN  IF bars = <<>>
            THEN a_out.name = TemplateParse(a_param) /\ ~a_out.hasDefault
            ELSE /\ a_out.name = TemplateParse(Slice(a_param, 0, bars[1]))
                 /\ a_out.hasDefault
                      <=> (Len(bars) > 1 \/ bars[1] + 1 < Len(a_param))
                 /\ a_out.hasDefault =>
                      a_out.default
                        = TemplateParse(Slice(a_param, bars[1] + 1, stop))

\* a placeholder with three top-level '|' has been built: its default is
\* the part between the first two
C21_Witness ==
    /\ ArgBuilt
    /\ a_param = <<"{", "{", "{", "1", "}", "}", "}", "|", "b", "|", "c", "|", "d">>
    /\ Len(TopLevelBars(a_param, 0, 0)) = 3
    /\ a_out.hasDefault
    /\ a_out.default = <<TemplateText(<<"b">>)>>

(***************************************************************************)
(* Skipped parameters.  An invocation is being instantiated when its       *)
(* expand_template activation waits at template.subst; the activation      *)
(* above it holds the parameter dictionary.                                *)
(***************************************************************************)
SkipDoc == <<"{", "{", "X", "|", "a", "|", "|", "c", "}", "}">>

SkipBody ==
    <<"{", "{", "{", "1", "}", "}", "}",
      "{", "{", "{", "2", "|", "d", "}", "}", "}",
      "{", "{", "{", "3", "}", "}", "}">>

TitleStep ==
    /\ At("expand_template", "title")
    /\ ~ret.none

TitleStepReturns(value) ==
    /\ ret' = value
    /\ \/ callStack' = Front(callStack)
       \/ outcome' = "returned"

\* C24: the title rules are applied in the order do-not-expand set, ignore
\* list, discard list: a title in the do-not-expand set or on the ignore
\* list gives the empty string, also when it is on the discard list, and
\* the discard value is returned exactly when the title is on the discard
\* list and neither earlier rule matches.
C24_TitleRulesInOrder ==
    [][TitleStep =>
          /\ (NotExpand(ret.val) \/ Lower(ret.val) \in ignoreTemplates)
                => TitleStepReturns(Str(<<>>)) /\ discardHit' = discardHit
          /\ (/\ ~NotExpand(ret.val)
              /\ Lower(ret.val) \notin ignoreTemplates
              /\ Lower(ret.val) \in discardTemplates)
                => TitleStepReturns(None)
          /\ ret'.none
                => /\ ~NotExpand(ret.val)
                   /\ Lower(ret.val) \notin ignoreTemplates
                   /\ Lower(ret.val) \in discardTemplates]_vars

\* a title on both the ignore list and the discard list has given the
\* empty string
C24_Witness ==
    /\ outcome = "returned"
    /\ wikitext = <<"{", "{", "g", "}", "}">>
    /\ <<"g">> \in ignoreTemplates \cap discardTemplates
    /\ ret = Str(<<>>)
    /\ ~discardHit

(***************************************************************************)
(* Parser-function calls.  The value call_parser_function returns is the   *)
(* text of the expand_templates call that expand_template makes next       *)
(* (template_processor.py:255-256): the activation above one waiting at    *)
(* its call site.                                                          *)
(***************************************************************************)
\* C25: call_parser_function returns a string for every function name and
\* argument list, never None: the value handed on from every call is a
\* string, also for a switch whose matching case has no equals sign.
C25_ParserFunctionGivesString ==
    \A i \in 1..(Len(callStack) - 1) :
        (/\ callStack[i].proc = "expand_template"
         /\ callStack[i].pc = "call"
         /\ callStack[i + 1].proc = "expand_templates")
        => ~callStack[i + 1].wikitext.none

(***************************************************************************)
(* Empty sections.  Headers reach the output only when the pending ones    *)
(* are written out, which a step does when it empties a non-empty headers  *)
(* dictionary; with keepSections the step appends a newline entry, the     *)
(* pending titles and the content line.                                    *)
(***************************************************************************)
HeadersWritten ==
    /\ mode = "compact" /\ c_pc = "line"
    /\ keepSections
    /\ DOMAIN headers # {}
    /\ headers' = EmptyDict

\* C26: a header is written to the output only together with a content
\* line of its own section or of one of its subsections: when headers are
\* written, a content line follows them in the same step and every header
\* written is the heading of a section that is still open, that is, no
\* heading of equal or shallower level has been read since.
C26_HeaderOnlyWithContent ==
    [][HeadersWritten =>
          /\ Len(page') = Len(page) + Cardinality(DOMAIN headers) + 2
          /\ ~SectionMatches(c_line)
          /\ \A k \in DOMAIN headers :
                /\ k \in DOMAIN openSections
                /\ ~openSections[k].discarded
                /\ openSections[k].title = headers[k]]_vars

(***************************************************************************)
(* The counters of the Extractor.  Extractor.__init__ sets four counters   *)
(* of its own to 0 (extractor.py:63-66) and no statement assigns them      *)
(* afterwards: the ceilings increment the counters of the                  *)
(* TemplateProcessor (template_processor.py:71, 102; Template.subst is     *)
(* handed the processor).  log_errors reads the Extractor's.               *)
(***************************************************************************)
ExtractorErrs ==
    [template_title_errs |-> 0,
     recursion_exceeded_1_errs |-> 0,
     recursion_exceeded_2_errs |-> 0,
     recursion_exceeded_3_errs |-> 0]

\* errs of Extractor.log_errors: title, recursion 1, 2, 3
log_errors ==
    <<ExtractorErrs.template_title_errs,
      ExtractorErrs.recursion_exceeded_1_errs,
      ExtractorErrs.recursion_exceeded_2_errs,
      ExtractorErrs.recursion_exceeded_3_errs>>

\* C27: after a document is processed, the three recursion counters that
\* log_errors reads equal the numbers of hits of the three ceilings during
\* the expansion (each hit adds one to the counter of its ceiling).
C27_LoggedCountersCountHits ==
    outcome = "returned" =>
        /\ log_errors[2] = recursion_exceeded_1_errs
        /\ log_errors[3] = recursion_exceeded_2_errs
        /\ log_errors[4] = recursion_exceeded_3_errs

\* C28: in every reachable state of an expansion the frame stack holds at
\* most MAX_TEMPLATE_RECURSION_LEVELS frames.
C28_FrameDepthBounded == Len(frame) <= MAX_TEMPLATE_RECURSION_LEVELS

(***************************************************************************)
(* The empty-section flag.  An ordinary content line is a non-empty line   *)
(* that is no heading, no page title, no list item after its indent is     *)
(* stripped, and no residual of a table or of punctuation.                 *)
(***************************************************************************)
OrdinaryLine(line) ==
    /\ line # <<>>
    /\ ~SectionMatches(line)
    /\ ~StartsWith(line, 0, <<"+", "+">>)
    /\ LStripColon(line) # <<>>
    /\ LET l == LStripColon(line)
       IN  /\ l[1] \notin {"*", "#", ";", "{", "|"}
           /\ l[Len(l)] # "}"
           /\ ~(l[1] = "(" /\ l[Len(l)] = ")")
           /\ \E k \in 1..Len(l) : l[k] \notin {".", "-"}

text_utils_balance_brackets(string) ==
    IF string.none THEN None ELSE Str(balance_brackets(string.val))

\* utils/utils.py
utils_balance_brackets(string) ==
    IF string.none THEN None
    ELSE LET stack == BalStack(string.val, 0, Len(string.val), <<>>)
         IN  Str(Rep("{", Count(stack, "}")) \o string.val
                 \o Rep("}", Count(stack, "(")))

\* templates/template_processor.py
processor_balance_brackets(string) ==
    IF string.none THEN None
    ELSE LET stack == BalStack(string.val, 0, Len(string.val), <<>>)
         IN  Str(Rep("{", Count(stack, "}")) \o string.val
                 \o Rep("}", Count(stack, "{")))

MaxBalLen == 6

BalChars == {"{", "}", "(", "a"}

BalInputs == {None} \cup {Str(t) : t \in Strs(BalChars, MaxBalLen)}

BalInit ==
    /\ mode = "balance"
    /\ ScanIdle
    /\ ParamIdle
    /\ CompactIdle
    /\ ExpandIdle
    /\ FuncIdle
    /\ DropIdle
    /\ ArgIdle
    /\ b_string \in BalInputs
    /\ b_text_utils = None
    /\ b_utils = None
    /\ b_processor = None
    /\ b_pc = "in"

BalRest ==
    UNCHANGED <<mode, b_string, scanVars, paramVars, compactVars,
                expandVars, funcVars, dropVars, argVars>>

BalanceTextUtils ==
    /\ mode = "balance" /\ b_pc = "in"
    /\ b_text_utils' = text_utils_balance_brackets(b_string)
    /\ b_pc' = "one"
    /\ UNCHANGED <<b_utils, b_processor>>
    /\ BalRest

BalanceUtils ==
    /\ mode = "balance" /\ b_pc = "one"
    /\ b_utils' = utils_balance_brackets(b_string)
    /\ b_pc' = "two"
    /\ UNCHANGED <<b_text_utils, b_processor>>
    /\ BalRest

BalanceProcessor ==
    /\ mode = "balance" /\ b_pc = "two"
    /\ b_processor' = processor_balance_brackets(b_string)
    /\ b_pc' = "done"
    /\ UNCHANGED <<b_text_utils, b_utils>>
    /\ BalRest

BalNext == BalanceTextUtils \/ BalanceUtils \/ BalanceProcessor

SpecBalance == BalInit /\ [][BalNext]_vars

\* C30: the three copies of balance_brackets are equivalent: called on the
\* same argument they return the same result.
C30_CopiesEquivalent ==
    (mode = "balance" /\ b_pc = "done") =>
        /\ b_utils = b_text_utils
        /\ b_processor = b_text_utils

====
